---- MODULE Spec2Model ----
(***************************************************************************)
(* Relighting-parameter estimation and application of the REAP benchmark   *)
(* (adv_patch_bench/transforms/lighting_tf.py) and the geometric step of   *)
(* scripts/run_realism_test_main.py, as a state machine: `call' holds the  *)
(* arguments of the operation under way, `coeffs' what the fitter gave     *)
(* back, `out' what the second step (apply, inverse conversion) gave and   *)
(* `mem' what else the program holds: the local variables of the step      *)
(* taken, tensor storages, the position of a loop.                         *)
(***************************************************************************)
EXTENDS Integers, Sequences, FiniteSets, TLC

VARIABLES call, coeffs, out, mem

vars == <<call, coeffs, out, mem>>

(***************************************************************************)
(* Bounds of the model.                                                    *)
(***************************************************************************)
\* Pixel values are the fractions k / MaxLevel, k in 0..MaxLevel.
MaxLevel == 2
\* Largest number of masked pixels handed to a fitter.
MaxPix == 3
\* Square roots are taken to a precision of 1 / SqrtRes.
SqrtRes == 100
MaxRows == 6
MaxFiles == 2
MaxObjs == 2
MaxIters == 3
MaxResults == 3

(***************************************************************************)
(* Strings.  A Python str is the tuple of its characters, so that `in',    *)
(* split and indexing are computed as the code computes them.              *)
(***************************************************************************)
StartsAt(sub, s, i) ==
    /\ i + Len(sub) - 1 <= Len(s)
    /\ \A j \in 1..Len(sub) : s[i + j - 1] = sub[j]

\* Python: sub in s
StrIn(sub, s) == \E i \in 1..(Len(s) + 1) : StartsAt(sub, s, i)

\* Positions of the one-character separator sep in s.
SepPositions(s, sep) == {i \in 1..Len(s) : s[i] = sep}

\* Python: s.split(sep)[-1] for a one-character separator
SplitLast(s, sep) ==
    LET ps == SepPositions(s, sep)
        last == IF ps = {} THEN 0 ELSE CHOOSE i \in ps : \A j \in ps : j <= i
    IN  SubSeq(s, last + 1, Len(s))

\* Python: s.split(sep)[0]
SplitFirst(s, sep) ==
    LET ps == SepPositions(s, sep)
        first == IF ps = {} THEN Len(s) + 1
                 ELSE CHOOSE i \in ps : \A j \in ps : i <= j
    IN  SubSeq(s, 1, first - 1)

\* Python: len(s.split(sep))
SplitCount(s, sep) == Cardinality(SepPositions(s, sep)) + 1

\* Python: s.split(sep)[1] (needs SplitCount(s, sep) > 1)
SplitSecond(s, sep) ==
    LET ps == SepPositions(s, sep)
        first == CHOOSE i \in ps : \A j \in ps : i <= j
        rest == {i \in ps : i > first}
        second == IF rest = {} THEN Len(s) + 1
                  ELSE CHOOSE i \in rest : \A j \in rest : i <= j
    IN  SubSeq(s, first + 1, second - 1)

SPercentile == <<"p", "e", "r", "c", "e", "n", "t", "i", "l", "e">>
SPolynomial == <<"p", "o", "l", "y", "n", "o", "m", "i", "a", "l">>
SColorTransfer ==
    <<"c", "o", "l", "o", "r", "_", "t", "r", "a", "n", "s", "f", "e", "r">>
SNone == <<"n", "o", "n", "e">>
SHsv == <<"h", "s", "v">>
SLab == <<"l", "a", "b">>
SMax == <<"m", "a", "x">>
SMean == <<"m", "e", "a", "n">>
SDashSv == <<"-", "s", "v">>
SDashL == <<"-", "l">>
SSv == <<"s", "v">>
SL == <<"l">>
SUs == <<"_">>

(***************************************************************************)
(* Floating-point values: a finite value is the exact fraction n / d in    *)
(* lowest terms (d > 0), and NaN and the infinities are values of their    *)
(* own, combined as IEEE 754 combines them.                                *)
(***************************************************************************)
Abs(x) == IF x < 0 THEN -x ELSE x

Sign(x) == IF x < 0 THEN -1 ELSE IF x > 0 THEN 1 ELSE 0

RECURSIVE GCD(_, _)
GCD(a, b) == IF b = 0 THEN a ELSE GCD(b, a % b)

Q(n, d) ==
    LET g == GCD(Abs(n), Abs(d))
        s == IF d < 0 THEN -1 ELSE 1
    IN  [k |-> "fin", n |-> (s * n) \div g, d |-> (s * d) \div g]

NaN == [k |-> "nan", n |-> 0, d |-> 1]

Inf(s) == [k |-> "inf", n |-> s, d |-> 1]

Zero == Q(0, 1)

One == Q(1, 1)

IsNaN(x) == x.k = "nan"

IsFinite(x) == x.k = "fin"

FNeg(x) == IF x.k = "nan" THEN NaN ELSE [x EXCEPT !.n = -x.n]

FAdd(x, y) ==
    IF x.k = "nan" \/ y.k = "nan" THEN NaN
    ELSE IF x.k = "inf" /\ y.k = "inf"
         THEN (IF x.n = y.n THEN x ELSE NaN)
    ELSE IF x.k = "inf" THEN x
    ELSE IF y.k = "inf" THEN y
    ELSE LET g == GCD(x.d, y.d)
         IN  Q(x.n * (y.d \div g) + y.n * (x.d \div g), (x.d \div g) * y.d)

FSub(x, y) == FAdd(x, FNeg(y))

FMul(x, y) ==
    IF x.k = "nan" \/ y.k = "nan" THEN NaN
    ELSE IF x.k = "inf" \/ y.k = "inf"
         THEN (IF x.n = 0 \/ y.n = 0 THEN NaN ELSE Inf(Sign(x.n) * Sign(y.n)))
    ELSE Q(x.n * y.n, x.d * y.d)

FDiv(x, y) ==
    IF x.k = "nan" \/ y.k = "nan" THEN NaN
    ELSE IF x.k = "inf"
         THEN (IF y.k = "inf" THEN NaN
               ELSE Inf(Sign(x.n) * (IF y.n < 0 THEN -1 ELSE 1)))
    ELSE IF y.k = "inf" THEN Zero
    ELSE IF y.n = 0 THEN (IF x.n = 0 THEN NaN ELSE Inf(Sign(x.n)))
    ELSE Q(x.n * y.d, x.d * y.n)

\* x < y; every comparison with NaN is false.
FLt(x, y) ==
    IF x.k = "nan" \/ y.k = "nan" THEN FALSE
    ELSE IF x.k = "inf" THEN x.n < 0 /\ ~(y.k = "inf" /\ y.n < 0)
    ELSE IF y.k = "inf" THEN y.n > 0
    ELSE x.n * y.d < y.n * x.d

FLe(x, y) == x.k # "nan" /\ y.k # "nan" /\ ~FLt(y, x)

\* torch.clamp_min(x, lo): NaN stays NaN.
ClampMin(x, lo) == IF x.k = "nan" THEN NaN ELSE IF FLt(x, lo) THEN lo ELSE x

\* torch.clamp(x, lo, hi): NaN stays NaN.
Clamp(x, lo, hi) ==
    IF x.k = "nan" THEN NaN
    ELSE IF FLt(x, lo) THEN lo
    ELSE IF FLt(hi, x) THEN hi
    ELSE x

FAbs(x) == IF x.k = "nan" THEN NaN ELSE [x EXCEPT !.n = Abs(x.n)]

\* x ** e for an integer exponent e >= 0 (torch.pow: anything ** 0 is 1).
RECURSIVE FPow(_, _)
FPow(x, e) == IF e = 0 THEN One ELSE FMul(x, FPow(x, e - 1))

RECURSIVE ISqrtFrom(_, _)
ISqrtFrom(x, r) == IF (r + 1) * (r + 1) > x THEN r ELSE ISqrtFrom(x, r + 1)

\* Square root, rounded down to a multiple of 1 / SqrtRes.
FSqrt(x) ==
    IF x.k = "nan" THEN NaN
    ELSE IF x.k = "inf" THEN (IF x.n > 0 THEN x ELSE NaN)
    ELSE IF x.n < 0 THEN NaN
    ELSE Q(ISqrtFrom((x.n * SqrtRes * SqrtRes) \div x.d, 0), SqrtRes)

RECURSIVE FSum(_)
FSum(xs) == IF xs = <<>> THEN Zero ELSE FAdd(Head(xs), FSum(Tail(xs)))

\* Tensor.mean(): the mean of no values is NaN (0 / 0).
FMean(xs) == FDiv(FSum(xs), Q(Len(xs), 1))

\* Tensor.std(): the unbiased estimate, NaN for fewer than two values.
FStd(xs) ==
    LET m == FMean(xs)
        sq == [i \in 1..Len(xs) |-> FMul(FSub(xs[i], m), FSub(xs[i], m))]
    IN  IF Len(xs) < 2 THEN NaN
        ELSE FSqrt(FDiv(FSum(sq), Q(Len(xs) - 1, 1)))

\* The pixel value k / MaxLevel.
Pix(k) == Q(k, MaxLevel)

(***************************************************************************)
(* Results of a call: a returned value or the exception raised.            *)
(***************************************************************************)
Pending == [st |-> "pending", val |-> <<>>, exc |-> ""]

Unused == [st |-> "unused", val |-> <<>>, exc |-> ""]

Ok(v) == [st |-> "ok", val |-> v, exc |-> ""]

Raise(e) == [st |-> "error", val |-> <<>>, exc |-> e]

(***************************************************************************)
(* _simple_percentile.  The percentile argument is the decimal literal     *)
(* P / 1000 read as a binary64 number, and                                 *)
(*     round(min(percentile, 1 - percentile) * 100)                        *)
(* is evaluated as binary64 arithmetic evaluates it: 1 - p is exact for    *)
(* p >= 1/2, the product is rounded to nearest, and round() rounds a half  *)
(* to the even integer.                                                    *)
(***************************************************************************)
RECURSIVE Pow2(_)
Pow2(k) == IF k = 0 THEN 1 ELSE 2 * Pow2(k - 1)

RECURSIVE Pow2Mod(_, _)
Pow2Mod(k, m) == IF k = 0 THEN 1 % m ELSE (2 * Pow2Mod(k - 1, m)) % m

\* The j >= 1 with 2^-j <= P/1000 < 2^(1-j), for 0 < P < 1000.
RECURSIVE BinadeFrom(_, _)
BinadeFrom(P, j) == IF P * Pow2(j) >= 1000 THEN j ELSE BinadeFrom(P, j + 1)

Binade(P) == BinadeFrom(P, 1)

\* The c with float(P/1000) - P/1000 = c / (1000 * 2^(52 + Binade(P))).
ReprError(P) ==
    LET r0 == (P * Pow2Mod(52 + Binade(P), 1000)) % 1000
    IN  IF r0 < 500 THEN -r0 ELSE 1000 - r0

\* The a >= -1 with 2^a <= T + 1/2 < 2^(a+1).
RECURSIVE TieExponentFrom(_, _)
TieExponentFrom(T, a) ==
    IF 2 * T + 1 >= Pow2(a + 2) THEN TieExponentFrom(T, a + 1) ELSE a

TieExponent(T) == TieExponentFrom(T, -1)

\* round(min(p, 1 - p) * 100) for p = float(P / 1000), 0 <= P <= 1000.
FoldPercentile(P) ==
    LET folded == IF P <= 500 THEN P ELSE 1000 - P
        T == folded \div 10
        a == TieExponent(T)
        \* The product is T + 1/2 + off / (10 * 2^(52+j)); half a unit in the
        \* last place above the tie is 10 * 2^sh of these units.
        off == IF P <= 500 THEN ReprError(P) ELSE -ReprError(P)
        sh == IF P <= 500 THEN a + Binade(P) - 1 ELSE a
        \* Below a power of two (T = 0) the spacing of the floats halves.
        shd == IF T = 0 THEN sh - 1 ELSE sh
        above == 4 * off > 10 * Pow2(sh + 2)
        below == 4 * (-off) > 10 * Pow2(shd + 2)
    IN  IF P = 0 \/ P = 1000 THEN 0
        ELSE IF folded % 10 # 5 THEN (folded + 5) \div 10
        ELSE IF above THEN T + 1
        ELSE IF below THEN T
        ELSE IF T % 2 = 0 THEN T ELSE T + 1

\* np.nanpercentile(xs, q) for an integer q in 0..100 (linear interpolation
\* between the two nearest ranks); NaN for an empty sample.
NanPercentile(xs, q) ==
    LET n == Len(xs)
        s == SortSeq(xs, FLt)
        pos == q * (n - 1)
        lo == pos \div 100
        hi == IF lo + 1 < n THEN lo + 1 ELSE n - 1
        gamma == Q(pos % 100, 100)
    IN  IF n = 0 THEN NaN
        ELSE FAdd(s[lo + 1], FMul(gamma, FSub(s[hi + 1], s[lo + 1])))

RECURSIVE Flatten(_)
Flatten(rows) == IF rows = <<>> THEN <<>> ELSE Head(rows) \o Flatten(Tail(rows))

\* The channels _simple_percentile loops over (0-based, as in the code).
PercentileChannels(mode) ==
    IF StrIn(SDashSv, mode) THEN <<1, 2>> ELSE <<0>>

\* real_pixels as the loop finds it: the list of per-channel tensors
\* (dim 2), or for the plain mode the stacked [1, 3n] view.
PercentileInput(real_pixels, mode) ==
    IF StrIn(SDashSv, mode) \/ StrIn(SDashL, mode)
    THEN [dim |-> 2, rows |-> real_pixels]
    ELSE [dim |-> 2, rows |-> <<Flatten(real_pixels)>>]

\* real_pixels[channel].reshape(-1): a row of a list or matrix, one
\* element of a vector; "IndexError" when the index is out of range.
IndexReshape(x, channel) ==
    IF channel + 1 > Len(x.rows) THEN Raise("IndexError")
    ELSE IF x.dim = 2 THEN Ok([dim |-> 1, rows |-> x.rows[channel + 1]])
    ELSE Ok([dim |-> 1, rows |-> <<x.rows[channel + 1]>>])

\* One pass of the loop body (lines 464-467) on the current real_pixels.
PercentileRow(sample, pct) ==
    LET min_ == NanPercentile(sample, pct)
        max_ == NanPercentile(sample, 100 - pct)
    IN  <<FSub(max_, min_), min_>>

\* The loop of lines 463-467: real_pixels is rebound in every pass.
RECURSIVE PercentileLoop(_, _, _, _)
PercentileLoop(x, channels, pct, acc) ==
    IF channels = <<>> THEN Ok(acc)
    ELSE LET sel == IndexReshape(x, Head(channels))
         IN  IF sel.st = "error" THEN sel
             ELSE PercentileLoop(sel.val, Tail(channels), pct,
                                 Append(acc, PercentileRow(sel.val.rows, pct)))

SimplePercentile(real_pixels, mode, P) ==
    IF ~(0 <= P /\ P <= 1000) THEN Raise("AssertionError")
    ELSE PercentileLoop(PercentileInput(real_pixels, mode),
                        PercentileChannels(mode), FoldPercentile(P), <<>>)

(***************************************************************************)
(* _fit_polynomial, from the masked samples on: syn[c] and real[c] are the *)
(* values of channel c at the masked pixels, in the colour space `mode'    *)
(* names, in the same pixel order.  The trimming fraction is quarters / 4, *)
(* which binary64 holds exactly.                                           *)
(***************************************************************************)
FMax2(x, y) == IF FLt(x, y) THEN y ELSE x

\* Tensor.max over the channel axis, pixel by pixel, keepdim.
ChannelMax(rows) ==
    <<[i \in 1..Len(rows[1]) |-> FMax2(FMax2(rows[1][i], rows[2][i]), rows[3][i])]>>

\* Tensor.mean over the channel axis, pixel by pixel, keepdim.
ChannelMean(rows) ==
    <<[i \in 1..Len(rows[1]) |->
          FDiv(FAdd(FAdd(rows[1][i], rows[2][i]), rows[3][i]), Q(3, 1))]>>

\* The polynomial fitter fitting every channel, whatever the mode.
PolyChannelsAll(mode) == <<0, 1, 2>>

\* Lines 375-387: the channels fitted (0-based) for the mode.
PolyChannels(mode) ==
    IF mode = SMax \/ mode = SMean THEN <<0>>
    ELSE IF StrIn(SDashSv, mode) THEN <<1, 2>>
    ELSE IF StrIn(SDashL, mode) THEN <<0>>
    ELSE <<0, 1, 2>>

\* Lines 376-381: the channel reduction of the modes "max" and "mean".
PolyReduce(rows, mode) ==
    IF mode = SMax THEN ChannelMax(rows)
    ELSE IF mode = SMean THEN ChannelMean(rows)
    ELSE rows

\* Python round() of num / 4: to nearest, a half to the even integer.
RoundQuarters(num) ==
    LET fl == num \div 4
        r == num % 4
    IN  IF r < 2 THEN fl
        ELSE IF r > 2 THEN fl + 1
        ELSE IF fl % 2 = 0 THEN fl ELSE fl + 1

\* Line 395: round((1 - percentile) * len(real_pixels)).
NumKept(quarters, n) == RoundQuarters((4 - quarters) * n)

\* topk with largest=True: the k largest.
TopKIndicesLargest(diff, k, tie) ==
    LET idx == [i \in 1..Len(diff) |-> i]
        before(i, j) ==
            \/ FLt(diff[j], diff[i])
            \/ /\ diff[i] = diff[j]
               /\ IF tie = "low" THEN i < j ELSE i > j
    IN  SubSeq(SortSeq(idx, before), 1, k)

\* torch.topk(diff, k, largest=False).indices: the k smallest, in
\* increasing order; equal values come in either index order (tie).
TopKIndices(diff, k, tie) ==
    LET idx == [i \in 1..Len(diff) |-> i]
        before(i, j) ==
            \/ FLt(diff[i], diff[j])
            \/ /\ diff[i] = diff[j]
               /\ IF tie = "low" THEN i < j ELSE i > j
    IN  SubSeq(SortSeq(idx, before), 1, k)

Gather(xs, indices) == [i \in 1..Len(indices) |-> xs[indices[i]]]

\* np.polyfit(x, y, deg) for deg <= 1, highest degree first: the least
\* squares line, and when all x are equal the minimum-norm solution of the
\* column-scaled system that numpy's lstsq returns.
PolyFit(x, y, deg) ==
    LET n == Q(Len(x), 1)
        sx == FSum(x)
        sy == FSum(y)
        sxx == FSum([i \in 1..Len(x) |-> FMul(x[i], x[i])])
        sxy == FSum([i \in 1..Len(x) |-> FMul(x[i], y[i])])
        den == FSub(FMul(n, sxx), FMul(sx, sx))
        slope == FDiv(FSub(FMul(n, sxy), FMul(sx, sy)), den)
        icept == FDiv(FSub(sy, FMul(slope, sx)), n)
        half == FDiv(FMean(y), Q(2, 1))
    IN  IF deg = 0 THEN <<FMean(y)>>
        ELSE IF den = Zero THEN <<FDiv(half, x[1]), half>>
        ELSE <<slope, icept>>

\* Lines 400-402: the constant polynomial.
ConstantPoly(real_pixels, deg) ==
    [i \in 1..(deg + 1) |-> IF i = deg + 1 THEN FMean(real_pixels) ELSE Zero]

\* Line 400: the test that selects the constant polynomial.
SynIsZero(syn_pixels) == FSum(syn_pixels) = Zero

\* Lines 391-409, one channel: the row of coefficients, with the pairs it
\* was fitted on and the branch taken.
PolyChannel(syn_pixels0, real_pixels0, deg, quarters, tie) ==
    LET num_kept == NumKept(quarters, Len(real_pixels0))
        diff == [i \in 1..Len(syn_pixels0) |->
                    FAbs(FSub(syn_pixels0[i], real_pixels0[i]))]
        indices == TopKIndices(diff, num_kept, tie)
        syn_pixels == Gather(syn_pixels0, indices)
        real_pixels == Gather(real_pixels0, indices)
        degenerate == SynIsZero(syn_pixels)
    IN  [poly |-> IF degenerate THEN ConstantPoly(real_pixels, deg)
                  ELSE PolyFit(syn_pixels, real_pixels, deg),
         constant |-> degenerate,
         indices |-> indices,
         syn |-> syn_pixels,
         real |-> real_pixels]

\* Lines 374-411 on the masked samples.
FitPolynomial(real, syn, deg, quarters, mode, tie) ==
    LET channels == PolyChannels(mode)
        synr == PolyReduce(syn, mode)
        realr == PolyReduce(real, mode)
    IN  Ok([i \in 1..Len(channels) |->
               PolyChannel(synr[channels[i] + 1], realr[channels[i] + 1],
                           deg, quarters, tie)])

(***************************************************************************)
(* _get_color_transfer_params, from the masked samples on.                 *)
(***************************************************************************)
EpsDen == 1000000

\* _EPS = 1e-6
EPS == Q(1, EpsDen)

\* The divisor without the clamp.
TransferDenominatorUnclamped(syn_pixels) == FStd(syn_pixels)

\* Line 429: real_pixels.std() / syn_pixels.std().clamp_min(_EPS)
TransferDenominator(syn_pixels) == ClampMin(FStd(syn_pixels), EPS)

\* Lines 426-434 for one channel.
TransferRow(real_pixels, syn_pixels) ==
    LET scale == FDiv(FStd(real_pixels), TransferDenominator(syn_pixels))
    IN  <<scale, FSub(FMean(real_pixels), FMul(FMean(syn_pixels), scale))>>

AnyNaN(rows) == \E i \in 1..Len(rows) : \E j \in 1..Len(rows[i]) : IsNaN(rows[i][j])

\* The check left out.
AssertNoNaNSkipped(rows) == Ok(rows)

\* Line 435: assert not coeffs.isnan().any()
AssertNoNaN(rows) == IF AnyNaN(rows) THEN Raise("AssertionError") ELSE Ok(rows)

\* Lines 424-436.
GetColorTransferParams(real, syn) ==
    AssertNoNaN([c \in 1..3 |-> TransferRow(real[c], syn[c])])

(***************************************************************************)
(* Inputs.  A masked sample is a sequence of at most MaxPix pixels, each   *)
(* one of a few colours; Channels gives the three per-channel tensors that *)
(* torch.masked_select produces from it.                                   *)
(***************************************************************************)
\* RGB colours (or HSV triples, or the L channel of Lab): no value below 0.
Colors ==
    { <<0, 0, 0>>, <<1, 1, 1>>, <<MaxLevel, MaxLevel, MaxLevel>>,
      <<MaxLevel, 1, 0>>, <<0, 1, MaxLevel>> }

PixelSeqs(colors, n) == [1..n -> colors]

Channels(pixels) ==
    [c \in 1..3 |-> [i \in 1..Len(pixels) |-> Pix(pixels[i][c])]]

\* mode = method.split("_")[-1] of the percentile methods
PercentileModes == {SPercentile, SHsv \o SDashSv, SLab \o SDashL}

\* The percentile argument, in thousandths.
Percentiles == {0, 5, 25, 100, 200, 500, 800, 900, 975, 995, 1000}

\* mode = method.split("_")[-1] of the polynomial methods
PolyModes ==
    {SPolynomial, SMax, SMean, SHsv \o SDashSv, SLab \o SDashL, SLab}

Degrees == {0, 1}

(***************************************************************************)
(* The fitters, called on masked samples.                                  *)
(***************************************************************************)
InitPercentile ==
    /\ \E n \in 0..MaxPix : \E px \in PixelSeqs(Colors, n) :
       \E mode \in PercentileModes : \E P \in Percentiles :
          call = [fn |-> "_simple_percentile", real_pixels |-> Channels(px),
                  mode |-> mode, percentile |-> P]
    /\ coeffs = Pending
    /\ out = Unused
    /\ mem = <<>>

SimplePercentileCall ==
    /\ call.fn = "_simple_percentile"
    /\ coeffs = Pending
    /\ coeffs' = SimplePercentile(call.real_pixels, call.mode, call.percentile)
    /\ UNCHANGED <<call, out, mem>>

NextPercentile == SimplePercentileCall

SpecPercentile == InitPercentile /\ [][NextPercentile]_vars

PolyColors == { <<0, 0, 0>>, <<MaxLevel, 1, 0>>, <<1, 1, 1>> }

PolyLabColors == { <<0, 0, 0>>, <<1, -1, 1>>, <<1, 1, -1>> }

SignedMode(mode) == StrIn(SLab, mode) /\ ~StrIn(SDashL, mode)

\* The colours of the real pixels and of the synthetic object, in the
\* colour space of the mode.
RealColors(mode) ==
    IF SignedMode(mode) THEN { <<0, 0, 0>>, <<1, 1, -1>> } ELSE PolyColors

SynColors(mode) ==
    IF SignedMode(mode) THEN PolyLabColors
    ELSE { <<0, 0, 0>>, <<MaxLevel, 1, 0>> }

InitPoly ==
    /\ \E n \in 0..MaxPix : \E mode \in PolyModes :
       \E real \in PixelSeqs(RealColors(mode), n) :
       \E syn \in PixelSeqs(SynColors(mode), n) :
       \E deg \in Degrees : \E quarters \in {0, 1, 2, 4} :
       \E tie \in {"low", "high"} :
          call = [fn |-> "_fit_polynomial", real_pixels |-> Channels(real),
                  syn_pixels |-> Channels(syn), mode |-> mode,
                  polynomial_degree |-> deg, quarters |-> quarters,
                  tie |-> tie]
    /\ coeffs = Pending
    /\ out = Unused
    /\ mem = <<>>

FitPolynomialCall ==
    /\ call.fn = "_fit_polynomial"
    /\ coeffs = Pending
    /\ coeffs' = FitPolynomial(call.real_pixels, call.syn_pixels,
                               call.polynomial_degree, call.quarters,
                               call.mode, call.tie)
    /\ UNCHANGED <<call, out, mem>>

NextPoly == FitPolynomialCall

SpecPoly == InitPoly /\ [][NextPoly]_vars

InitTransfer ==
    /\ \E n \in 0..MaxPix : \E real \in PixelSeqs(PolyColors, n) :
       \E syn \in PixelSeqs(PolyColors, n) :
          call = [fn |-> "_get_color_transfer_params",
                  real_pixels |-> Channels(real), syn_pixels |-> Channels(syn)]
    /\ coeffs = Pending
    /\ out = Unused
    /\ mem = <<>>

GetColorTransferParamsCall ==
    /\ call.fn = "_get_color_transfer_params"
    /\ coeffs = Pending
    /\ coeffs' = GetColorTransferParams(call.real_pixels, call.syn_pixels)
    /\ UNCHANGED <<call, out, mem>>

NextTransfer == GetColorTransferParamsCall

SpecTransfer == InitTransfer /\ [][NextTransfer]_vars

(***************************************************************************)
(* Properties of the fitters.                                              *)
(***************************************************************************)
PercentileDone == call.fn = "_simple_percentile" /\ coeffs.st # "pending"

\* C1: the percentile fitter gives the same result for the percentile p
\* and for 1 - p, whatever the sample and the mode.
C1_FoldSymmetric ==
    PercentileDone =>
        coeffs = SimplePercentile(call.real_pixels, call.mode,
                                  1000 - call.percentile)

\* C2: with a channel subset ('-sv', '-l') the row of each selected channel
\* is (P_hi - P_lo, P_lo), the folded percentiles of that channel's whole
\* sample.
C2_RowPerSelectedChannel ==
    ( /\ PercentileDone
      /\ coeffs.st = "ok"
      /\ StrIn(SDashSv, call.mode) \/ StrIn(SDashL, call.mode) ) =>
        LET channels == PercentileChannels(call.mode)
            pct == FoldPercentile(call.percentile)
        IN  /\ Len(coeffs.val) = Len(channels)
            /\ \A i \in 1..Len(channels) :
                  LET sample == call.real_pixels[channels[i] + 1]
                  IN  coeffs.val[i] =
                          << FSub(NanPercentile(sample, 100 - pct),
                                  NanPercentile(sample, pct)),
                             NanPercentile(sample, pct) >>

AllZero(xs) == \A i \in 1..Len(xs) : xs[i] = Zero

\* C4: in the polynomial fitter, a channel whose (kept) synthetic values are
\* all zero gets the constant polynomial mean(real), higher coefficients
\* zero, and the constant branch is taken only when they are all zero.
C4_ConstantBranchIffAllZero ==
    (call.fn = "_fit_polynomial" /\ coeffs.st = "ok") =>
        \A i \in 1..Len(coeffs.val) :
            LET r == coeffs.val[i]
                deg == call.polynomial_degree
            IN  /\ AllZero(r.syn) =>
                     /\ r.poly[deg + 1] = FMean(r.real)
                     /\ \A j \in 1..deg : r.poly[j] = Zero
                /\ r.constant => AllZero(r.syn)

TransferDone == call.fn = "_get_color_transfer_params" /\ coeffs.st # "pending"

\* C5: every returned colour-transfer row is
\* (real_std / max(syn_std, eps), real_mean - syn_mean * scale), the divisor
\* is never zero and both numbers are finite.
C5_ClampedScaleFinite ==
    (TransferDone /\ coeffs.st = "ok") =>
        \A c \in 1..3 :
            LET syn_std == FStd(call.syn_pixels[c])
                den == IF FLt(syn_std, EPS) THEN EPS ELSE syn_std
                scale == FDiv(FStd(call.real_pixels[c]), den)
            IN  /\ FLt(Zero, den)
                /\ coeffs.val[c][1] = scale
                /\ coeffs.val[c][2] =
                       FSub(FMean(call.real_pixels[c]),
                            FMul(FMean(call.syn_pixels[c]), scale))
                /\ IsFinite(coeffs.val[c][1])
                /\ IsFinite(coeffs.val[c][2])

\* A returned result whose synthetic sample has a channel of zero variance
\* while the real one varies.
C5_Witness ==
    /\ TransferDone
    /\ coeffs.st = "ok"
    /\ \E c \in 1..3 :
          /\ FStd(call.syn_pixels[c]) = Zero
          /\ FLt(Zero, FStd(call.real_pixels[c]))
          /\ FLt(Zero, FMean(call.syn_pixels[c]))

\* C8: the colour-transfer fitter returns coefficients without NaN or
\* fails with an assertion error.
C8_NoNaNOrAssertion ==
    TransferDone =>
        \/ coeffs.st = "ok" /\ ~AnyNaN(coeffs.val)
        \/ coeffs.st = "error" /\ coeffs.exc = "AssertionError"

\* A sample of one pixel: its standard deviation is NaN and the call fails.
C8_Witness ==
    /\ TransferDone
    /\ Len(call.real_pixels[1]) = 1
    /\ coeffs.st = "error"

(***************************************************************************)
(* RGBtoLab and LabtoRGB.  Channel values are whole multiples of _EPS      *)
(* (1e-6) and the entries of the two colour matrices whole multiples of    *)
(* 1e-4, as they are written in the source; a product is rounded down to   *)
(* a multiple of _EPS, which moves a converted value by less than 40 _EPS. *)
(* Both einsum calls are "bchw,cd->bdhw": out[d] = sum over c of           *)
(* in[c] * matrix[c][d].  A Lab value is kept in the log domain as the     *)
(* LMS triple under the logarithm and the integer basis applied to it:     *)
(*     lab[d] = sum over c of rows[c][d] / sqrt(ScaleSq[c]) * log(of[c]).  *)
(***************************************************************************)
\* Lines 31-37, in units of 1e-4.
RgbToLms ==
    << <<3811, 5783, 402>>, <<1967, 7244, 782>>, <<241, 1288, 8444>> >>

\* Lines 78-84, in units of 1e-4.
LmsToRgb ==
    << <<44679, -35873, 1193>>, <<-12186, 23809, -1624>>,
       <<497, -2439, 12045>> >>

\* The numbers under the square roots of scale (lines 38-44 and 67-73).
ScaleSq == <<3, 6, 2>>

\* Lines 45-47: loglms_to_lab = scale @ LogLmsToLabBasis.
LogLmsToLabBasis == << <<1, 1, 1>>, <<1, 1, -2>>, <<1, -1, 0>> >>

\* Lines 74-77: lab_to_loglms = LabToLogLmsBasis @ scale.
LabToLogLmsBasis == << <<1, 1, 1>>, <<1, 1, -1>>, <<1, -2, 0>> >>

\* a * m / 10000 rounded down, without leaving 32 bits.
MulFix(a, m) == (a \div 10000) * m + ((a % 10000) * m) \div 10000

\* einsum("bchw,cd->bdhw", v, matrix) at one pixel.
Einsum(v, matrix) ==
    [d \in 1..3 |-> MulFix(v[1], matrix[1][d]) + MulFix(v[2], matrix[2][d])
                    + MulFix(v[3], matrix[3][d])]

MatMul(a, b) ==
    [i \in 1..3 |-> [j \in 1..3 |->
        a[i][1] * b[1][j] + a[i][2] * b[2][j] + a[i][3] * b[3][j]]]

\* Line 54: inputs.clamp(_EPS, 1 - _EPS)
ClampEps(v) == IF v < 1 THEN 1 ELSE IF v > EpsDen - 1 THEN EpsDen - 1 ELSE v

\* RGBtoLab.forward at one pixel (lines 54-58).
RGBtoLabForward(inputs) ==
    LET lms == Einsum([c \in 1..3 |-> ClampEps(inputs[c])], RgbToLms)
    IN  [space |-> "lab", of |-> lms, rows |-> LogLmsToLabBasis]

\* loglms.exp() of line 92: with g = rows of the Lab value times
\* LabToLogLmsBasis, loglms[d] is the sum over c of
\* g[c][d] / sqrt(ScaleSq[c] * ScaleSq[d]) * log(of[c]), which is log(of[d])
\* when g is the diagonal of ScaleSq.  No other g arises from an unmodified
\* Lab value, and none is evaluated here.
ExpLogLms(lab) ==
    LET g == MatMul(lab.rows, LabToLogLmsBasis)
    IN  IF \A c \in 1..3 : \A d \in 1..3 :
              g[c][d] = (IF c = d THEN ScaleSq[d] ELSE 0)
        THEN Ok(lab.of)
        ELSE Raise("NotEvaluated")

\* LabtoRGB.forward at one pixel (lines 91-93).
LabtoRGBForward(lab) ==
    LET lms == ExpLogLms(lab)
    IN  IF lms.st = "error" THEN lms
        ELSE Ok([space |-> "rgb", px |-> Einsum(lms.val, LmsToRgb)])

\* Channel values of the images converted: quarters of the range [0, 1],
\* and the two values next to its ends.
LabLevels == {(k * EpsDen) \div 4 : k \in 0..4} \cup {1, EpsDen - 1}

InitLab ==
    /\ \E r \in LabLevels : \E g \in LabLevels : \E b \in LabLevels :
          call = [fn |-> "RGBtoLab", inputs |-> <<r, g, b>>]
    /\ coeffs = Unused
    /\ out = Pending
    /\ mem = <<>>

RGBtoLabCall ==
    /\ call.fn = "RGBtoLab"
    /\ out = Pending
    /\ out' = Ok(RGBtoLabForward(call.inputs))
    /\ UNCHANGED <<call, coeffs, mem>>

LabtoRGBCall ==
    /\ call.fn = "RGBtoLab"
    /\ out.st = "ok"
    /\ out.val.space = "lab"
    /\ out' = LabtoRGBForward(out.val)
    /\ UNCHANGED <<call, coeffs, mem>>

NextLab == RGBtoLabCall \/ LabtoRGBCall

SpecLab == InitLab /\ [][NextLab]_vars

RoundTripDone == call.fn = "RGBtoLab" /\ out.st = "ok" /\ out.val.space = "rgb"

\* C6: an RGB pixel with values in [0, 1] converted by RGBtoLab and back by
\* LabtoRGB comes back within a thousandth in every channel.
C6_RoundTrip ==
    RoundTripDone =>
        \A c \in 1..3 : 1000 * Abs(out.val.px[c] - call.inputs[c]) <= EpsDen

(***************************************************************************)
(* The geometric step of scripts/run_realism_test_main.py (lines 256-291): *)
(* src holds the vertices of the canonical sign shape, three or four       *)
(* points of which the first three are not on one line, and the annotated  *)
(* sign points are brought to the image width before the matrix is solved. *)
(***************************************************************************)
IMG_WIDTH == 2048

\* tgt *= IMG_WIDTH / 6036
ScalePoints(pts) ==
    [i \in 1..Len(pts) |->
        <<FMul(Q(pts[i][1], 1), Q(IMG_WIDTH, 6036)),
          FMul(Q(pts[i][2], 1), Q(IMG_WIDTH, 6036))>>]

\* Twice the signed area of three integer points.
Det3(p) ==
    p[1][1] * (p[2][2] - p[3][2]) + p[2][1] * (p[3][2] - p[1][2])
    + p[3][1] * (p[1][2] - p[2][2])

\* The solver with the two linear coefficients of each row exchanged.
GetAffineTransformSwapped(src, tgt) ==
    LET det == Q(Det3(src), 1)
        x(i) == src[i][1]
        y(i) == src[i][2]
        k(n) == Q(n, 1)
        row(r) ==
            LET u(i) == tgt[i][r]
                a == FAdd(FAdd(FMul(u(1), k(y(2) - y(3))),
                               FMul(u(2), k(y(3) - y(1)))),
                          FMul(u(3), k(y(1) - y(2))))
                b == FAdd(FAdd(FMul(u(1), k(x(3) - x(2))),
                               FMul(u(2), k(x(1) - x(3)))),
                          FMul(u(3), k(x(2) - x(1))))
                c == FAdd(FAdd(FMul(u(1), k(x(2) * y(3) - x(3) * y(2))),
                               FMul(u(2), k(x(3) * y(1) - x(1) * y(3)))),
                          FMul(u(3), k(x(1) * y(2) - x(2) * y(1))))
            IN  <<FDiv(b, det), FDiv(a, det), FDiv(c, det)>>
    IN  <<row(1), row(2)>>

\* cv.getAffineTransform(src, tgt): the 2x3 matrix of the six-equation
\* system of three correspondences, solved here by Cramer's rule.
GetAffineTransform(src, tgt) ==
    LET det == Q(Det3(src), 1)
        x(i) == src[i][1]
        y(i) == src[i][2]
        k(n) == Q(n, 1)
        row(r) ==
            LET u(i) == tgt[i][r]
                a == FAdd(FAdd(FMul(u(1), k(y(2) - y(3))),
                               FMul(u(2), k(y(3) - y(1)))),
                          FMul(u(3), k(y(1) - y(2))))
                b == FAdd(FAdd(FMul(u(1), k(x(3) - x(2))),
                               FMul(u(2), k(x(1) - x(3)))),
                          FMul(u(3), k(x(2) - x(1))))
                c == FAdd(FAdd(FMul(u(1), k(x(2) * y(3) - x(3) * y(2))),
                               FMul(u(2), k(x(3) * y(1) - x(1) * y(3)))),
                          FMul(u(3), k(x(1) * y(2) - x(2) * y(1))))
            IN  <<FDiv(a, det), FDiv(b, det), FDiv(c, det)>>
    IN  <<row(1), row(2)>>

\* Lines 257-291: the sign transform of the modes "affine" and
\* "perspective".  The four-point homography is kornia's
\* get_perspective_transform, whose result is not computed here.
SignTfMatrix(geo_method, src, sign) ==
    IF Len(src) = 3 \/ geo_method = "affine"
    THEN LET tgt == ScalePoints(SubSeq(sign, 1, 3))
         IN  [path |-> "affine",
              matrix |-> Append(GetAffineTransform(SubSeq(src, 1, 3), tgt),
                                <<Zero, Zero, One>>),
              tgt |-> tgt]
    ELSE [path |-> "perspective", matrix |-> <<>>,
          tgt |-> ScalePoints(SubSeq(sign, 1, 4))]

\* Vertices of canonical shapes on a grid of side MaxLevel.
SrcShapes ==
    { << <<0, 0>>, <<MaxLevel, 0>>, <<MaxLevel, MaxLevel>>, <<0, MaxLevel>> >>,
      << <<1, 0>>, <<MaxLevel, 1>>, <<MaxLevel - 1, MaxLevel>>,
         <<0, MaxLevel - 1>> >>,
      << <<1, 0>>, <<MaxLevel, MaxLevel>>, <<0, MaxLevel>> >> }

\* Annotated coordinates, in pixels of the 6036-wide photograph.
SignCoords == {1000 * k : k \in 0..MaxLevel}

SignPoints == SignCoords \X SignCoords

InitAffine ==
    /\ \E geo \in {"affine", "perspective"} : \E src \in SrcShapes :
       \E p1 \in SignPoints : \E p2 \in SignPoints : \E p3 \in SignPoints :
       \E p4 \in {<<0, 1000>>, <<1000, 3000>>} :
          call = [fn |-> "sign_tf_matrix", geo_method |-> geo, src |-> src,
                  sign |-> <<p1, p2, p3, p4>>]
    /\ coeffs = Unused
    /\ out = Pending
    /\ mem = <<>>

SignTfMatrixStep ==
    /\ call.fn = "sign_tf_matrix"
    /\ out = Pending
    /\ out' = Ok(SignTfMatrix(call.geo_method, call.src, call.sign))
    /\ UNCHANGED <<call, coeffs, mem>>

NextAffine == SignTfMatrixStep

SpecAffine == InitAffine /\ [][NextAffine]_vars

AffineDone ==
    /\ call.fn = "sign_tf_matrix"
    /\ out.st = "ok"
    /\ Len(call.src) = 3 \/ call.geo_method = "affine"

\* C7: the matrix of the affine path (three source points, or geo_method
\* "affine") has the last row [0, 0, 1] exactly, and its first two rows map
\* each of the first three source points onto its scaled sign point.
C7_AffineMatrix ==
    AffineDone =>
        LET m == out.val.matrix
        IN  /\ Len(m) = 3
            /\ m[3] = <<Zero, Zero, One>>
            /\ \A i \in 1..3 : \A r \in 1..2 :
                  FAdd(FAdd(FMul(m[r][1], Q(call.src[i][1], 1)),
                            FMul(m[r][2], Q(call.src[i][2], 1))),
                       m[r][3])
                  = FMul(Q(call.sign[i][r], 1), Q(IMG_WIDTH, 6036))

\* The affine path taken with four source points, onto three sign points
\* that are not on one line.
C7_Witness ==
    /\ AffineDone
    /\ Len(call.src) = 4
    /\ Det3(call.sign) # 0
    /\ out.val.matrix[1][1] # out.val.matrix[1][2]

(***************************************************************************)
(* compute_relight_params followed by RelightTransform(method) and its     *)
(* forward, on images of one row.  The transform matrix is the translation *)
(* by t pixels along the row, for which kornia's warp_perspective samples  *)
(* whole pixels in both interpolation modes: out[i] = in[i - t], and zero  *)
(* where i - t is outside the image.  The methods are those of             *)
(* RELIGHT_METHODS that name no colour space, so that lines 526-531 and    *)
(* the transforms of RelightTransform convert nothing.                     *)
(***************************************************************************)
\* kornia_tf.warp_perspective(img, translation by t, same width,
\* padding_mode="zeros")
WarpIdentity(img, t, zero) == img

Warp(img, t, zero) ==
    [i \in 1..Len(img) |-> IF i - t \in 1..Len(img) THEN img[i - t] ELSE zero]

\* torch.masked_select(values, mask), in pixel order.
RECURSIVE MaskedSelect(_, _)
MaskedSelect(values, mask) ==
    IF values = <<>> THEN <<>>
    ELSE IF Head(mask)
         THEN <<Head(values)>> \o MaskedSelect(Tail(values), Tail(mask))
         ELSE MaskedSelect(Tail(values), Tail(mask))

\* Lines 535-536: the masked values of each channel of an image whose
\* pixels are triples of levels.
RealPixels(img, mask) ==
    [c \in 1..3 |-> MaskedSelect([i \in 1..Len(img) |-> Pix(img[i][c])], mask)]

\* The mask taken as true wherever it is not 0.
FitMaskNonZero(method, obj_mask, t) ==
    LET fits_image == StrIn(SPercentile, method) \/ StrIn(SPolynomial, method)
        mask1 == IF fits_image THEN Warp(obj_mask, t, 0) ELSE obj_mask
    IN  [i \in 1..Len(mask1) |-> mask1[i] # 0]

\* Lines 499-533: the boolean mask the samples are taken with.
FitMask(method, obj_mask, t) ==
    LET fits_image == StrIn(SPercentile, method) \/ StrIn(SPolynomial, method)
        mask1 == IF fits_image THEN Warp(obj_mask, t, 0) ELSE obj_mask
    IN  [i \in 1..Len(mask1) |-> mask1[i] = 1]

\* Lines 499-536: real_pixels, the masked values of the image per channel.
FitSample(img, method, obj_mask, t) ==
    LET fits_image == StrIn(SPercentile, method) \/ StrIn(SPolynomial, method)
        transfer == StrIn(SColorTransfer, method)
        img1 == IF ~fits_image /\ transfer THEN Warp(img, t, <<0, 0, 0>>)
                ELSE img
    IN  RealPixels(img1, FitMask(method, obj_mask, t))

\* Lines 493-554: what compute_relight_params hands the samples to.
FitterFunc(method) ==
    IF method = SNone THEN "none"
    ELSE IF StrIn(SPercentile, method) THEN "_simple_percentile"
    ELSE IF StrIn(SPolynomial, method) THEN "_fit_polynomial"
    ELSE IF StrIn(SColorTransfer, method) THEN "_get_color_transfer_params"
    ELSE "NotImplementedError"

\* compute_relight_params (lines 493-556); percentile is given in
\* thousandths, and as a trimming fraction it is a multiple of a quarter.
ComputeRelightParams(img, method, obj_mask, t, syn_obj, percentile, deg, tie) ==
    LET fitter == FitterFunc(method)
        mode == SplitLast(method, "_")
        mask == FitMask(method, obj_mask, t)
        real_pixels == FitSample(img, method, obj_mask, t)
    IN  CASE fitter = "none" -> Ok(<<One, Zero>>)
          [] fitter = "_simple_percentile" ->
                 SimplePercentile(real_pixels, mode, percentile)
          [] fitter = "_fit_polynomial" ->
                 LET syn == RealPixels(Warp(syn_obj, t, <<0, 0, 0>>), mask)
                     fit == FitPolynomial(real_pixels, syn, deg,
                                          (4 * percentile) \div 1000, mode, tie)
                 IN  Ok([i \in 1..Len(fit.val) |-> fit.val[i].poly])
          [] fitter = "_get_color_transfer_params" ->
                 GetColorTransferParams(real_pixels, RealPixels(syn_obj, mask))
          [] OTHER -> Raise("NotImplementedError")

\* The colour spaces of the fit: the transform compute_relight_params puts
\* the image through (lines 525-531) and the one the fitter puts the
\* synthetic object through (lines 369-372 and 420-423); "lab" is RGBtoLab,
\* the kornia_ ones are the library's.
FitColorSpaces(method) ==
    LET mode == SplitLast(method, "_")
        fitter == FitterFunc(method)
        transfer == StrIn(SColorTransfer, method)
    IN  [img |-> IF StrIn(SHsv, mode) THEN "kornia_hsv"
                 ELSE IF StrIn(SLab, mode) /\ transfer THEN "lab"
                 ELSE IF StrIn(SLab, mode) THEN "kornia_lab"
                 ELSE "None",
         syn |-> IF fitter = "_simple_percentile" THEN "unused"
                 ELSE IF StrIn(SHsv, mode) THEN "kornia_hsv"
                 ELSE IF StrIn(SLab, mode)
                 THEN (IF fitter = "_fit_polynomial" THEN "kornia_lab"
                       ELSE "lab")
                 ELSE "None"]

\* The channel each row of the fitted coefficients comes from, in row
\* order: the channels list of _fit_polynomial (lines 375-385) and of
\* _simple_percentile, range(3) of _get_color_transfer_params (line 425).
FittedChannels(method) ==
    LET fitter == FitterFunc(method)
        mode == SplitLast(method, "_")
    IN  CASE fitter = "_fit_polynomial" -> PolyChannels(mode)
          [] fitter = "_simple_percentile" -> PercentileChannels(mode)
          [] fitter = "_get_color_transfer_params" -> <<0, 1, 2>>
          [] OTHER -> <<>>

\* compute_relight_params as a dispatch: the fitter invoked, the colour
\* spaces its samples are in and the channels of its rows, without the
\* numbers.
ComputeRelightDispatch(method) ==
    LET fitter == FitterFunc(method)
    IN  IF fitter = "none"
        THEN Ok([fitter |-> fitter, img |-> "None", syn |-> "unused",
                 channels |-> <<>>])
        ELSE IF fitter = "NotImplementedError"
        THEN Raise("NotImplementedError")
        ELSE Ok([fitter |-> fitter, img |-> FitColorSpaces(method).img,
                 syn |-> FitColorSpaces(method).syn,
                 channels |-> FittedChannels(method)])

\* A constructor that sets no channel restriction.
SelectedChannelsNone(color_space, channels) == <<>>

\* self._channels (lines 119-135): the channels the suffix restricts the
\* transform to, <<>> for None.
SelectedChannels(color_space, channels) ==
    IF color_space = SHsv /\ channels = SSv THEN <<1, 2>>
    ELSE IF color_space = SLab /\ channels = SL THEN <<0>>
    ELSE <<>>

\* RelightTransform.__init__ (lines 106-140).
RelightTransformInit(method) ==
    LET channels == IF SplitCount(method, "-") = 1 THEN <<>>
                    ELSE SplitSecond(method, "-")
        color_space == SplitFirst(SplitLast(method, "_"), "-")
        color_tfs == IF color_space = SHsv THEN "kornia_hsv"
                     ELSE IF color_space = SLab
                     THEN (IF method = SColorTransfer \o SUs \o SLab
                           THEN "lab" ELSE "kornia_lab")
                     ELSE "None"
        selected == SelectedChannels(color_space, channels)
    IN  IF color_tfs = "None" /\ StrIn(SColorTransfer, method)
        THEN Raise("ValueError")
        ELSE Ok([method |-> method, channels |-> selected,
                 color_tfs |-> color_tfs])

\* forward with a fall-through to the no-op in place of its last branch.
ForwardFuncLenient(method) ==
    IF StrIn(SColorTransfer, method) THEN "_color_transfer"
    ELSE IF StrIn(SPercentile, method) \/ StrIn(SPolynomial, method)
    THEN "_polynomial_match"
    ELSE "_no_relight"

\* Lines 157-164: the function forward hands its arguments to.
ForwardFunc(method) ==
    IF StrIn(SColorTransfer, method) THEN "_color_transfer"
    ELSE IF StrIn(SPercentile, method) \/ StrIn(SPolynomial, method)
    THEN "_polynomial_match"
    ELSE IF method = SNone THEN "_no_relight"
    ELSE "NotImplementedError"

\* tensor[None]
Unsqueeze(tensor) == [ndim |-> tensor.ndim + 1, data |-> <<tensor.data>>]

\* sum over d of x ** degrees[d] * row[d], degrees = deg - 1, ..., 0
RECURSIVE PolyEval(_, _)
PolyEval(x, row) ==
    IF row = <<>> THEN Zero
    ELSE FAdd(FMul(FPow(x, Len(row) - 1), Head(row)), PolyEval(x, Tail(row)))

\* Line 289: outputs.clamp_(0, 1)
ClampOutput(x) == Clamp(x, Zero, One)

\* relight_coeffs = None, which has no ndim.
NoneCoeffs == [ndim |-> -1, data |-> <<>>]

\* The elements of a tensor in storage order, as Tensor.view reads them.
RECURSIVE Elements(_, _)
Elements(data, ndim) ==
    IF ndim <= 1 THEN data ELSE Elements(Flatten(data), ndim - 1)

\* A batch of images of level triples as a tensor of values.
ToTensor(batch) ==
    [b \in 1..Len(batch) |-> [i \in 1..Len(batch[b]) |->
        [c \in 1..3 |-> Pix(batch[b][i][c])]]]

\* "channel in channels" of lines 209 and 277 (0-based), every channel when
\* channels is None.
Affected(channels, channel) ==
    channels = <<>> \/ \E j \in 1..Len(channels) : channels[j] = channel

\* No coefficient batch size refused.
BatchMismatchNever(poly_len, inputs_len) == FALSE

\* Line 255: len(poly_coeffs) != len(inputs) and len(poly_coeffs) != 1
BatchMismatch(poly_len, inputs_len) == poly_len # inputs_len /\ poly_len # 1

\* The copy left out: the input tensor itself is returned.
NoRelightAliased(store, inputs) ==
    [store |-> store, ret |-> Ok([ref |-> inputs, inverse |-> "None"])]

\* _no_relight (lines 179-180): inputs.clone() is a tensor with a storage of
\* its own.
NoRelight(store, inputs) ==
    [store |-> Append(store, store[inputs]),
     ret |-> Ok([ref |-> Len(store) + 1, inverse |-> "None"])]

\* The row of the coefficients that the apply function func uses on a
\* channel: ct_coeffs[:, channel] (lines 209-211), poly_coeffs[:, c] of the
\* einsum (line 273) and poly_coeffs[:, channels.index(channel)] (line 279).
CoeffRow(func, channels, channel) ==
    IF func = "_color_transfer" \/ channels = <<>> THEN channel
    ELSE (CHOOSE j \in 1..Len(channels) : channels[j] = channel) - 1

\* _color_transfer up to the inverse transform (lines 206-215), on the image
\* in the working colour space; ct_coeffs.view(-1, 3, 2, 1, 1) needs a
\* multiple of six elements and broadcasts against the batch.
ColorTransfer(lab, ct_coeffs, channels) ==
    LET flat == Elements(ct_coeffs.data, ct_coeffs.ndim)
        k == Len(flat) \div 6
        n == Len(lab)
        batch == IF n = 1 /\ channels = <<>> THEN k ELSE n
        ct(b, c, j) ==
            flat[6 * ((IF k = 1 THEN 1 ELSE b) - 1)
                 + 2 * CoeffRow("_color_transfer", channels, c - 1) + j]
        px(b, i, c) == lab[IF n = 1 THEN 1 ELSE b][i][c]
    IN  IF ct_coeffs.ndim = -1 THEN Raise("AttributeError")
        ELSE IF flat = <<>> \/ Len(flat) % 6 # 0 THEN Raise("RuntimeError")
        ELSE IF k # 1 /\ k # n /\ ~(n = 1 /\ channels = <<>>)
        THEN Raise("RuntimeError")
        ELSE Ok([b \in 1..batch |-> [i \in 1..Len(lab[1]) |->
                 [c \in 1..3 |->
                     IF Affected(channels, c - 1)
                     THEN FAdd(FMul(px(b, i, c), ct(b, c, 1)), ct(b, c, 2))
                     ELSE px(b, i, c)]]])

\* _polynomial_match up to the inverse transform (lines 250-285), on the
\* image in the working colour space, and with the clamp of line 289 when
\* there is no transform; einsum broadcasts a batch or channel dimension
\* of 1.
PolynomialMatch(inputs, poly_coeffs, channels, color_tfs) ==
    LET data == poly_coeffs.data
        rows(b) == data[IF Len(data) = 1 THEN 1 ELSE b]
        row(b, c) ==
            IF channels = <<>> /\ Len(rows(b)) = 1 THEN rows(b)[1]
            ELSE rows(b)[CoeffRow("_polynomial_match", channels, c - 1) + 1]
        final(x) == IF color_tfs = "None" THEN ClampOutput(x) ELSE x
    IN  IF poly_coeffs.ndim = -1 THEN Raise("AttributeError")
        ELSE IF poly_coeffs.ndim # 3 THEN Raise("ValueError")
        ELSE IF BatchMismatch(Len(data), Len(inputs)) THEN Raise("ValueError")
        ELSE IF channels = <<>> /\ Len(data[1]) \notin {1, 3}
        THEN Raise("ValueError")
        ELSE IF channels # <<>> /\ Len(data[1]) < Len(channels)
        THEN Raise("IndexError")
        ELSE Ok([b \in 1..Len(inputs) |-> [i \in 1..Len(inputs[b]) |->
                 [c \in 1..3 |->
                     IF Affected(channels, c - 1)
                     THEN final(PolyEval(inputs[b][i][c], row(b, c)))
                     ELSE final(inputs[b][i][c])]]])

\* RelightTransform.forward (lines 157-170) of the transform tf: store[1]
\* is the input tensor, converted what color_space_transforms[0] makes of
\* it.  The inverse transform is named in the result, not computed.
Forward(store, tf, converted, relight_coeffs) ==
    LET func == ForwardFunc(tf.method)
        x == IF tf.color_tfs = "None" THEN store[1] ELSE converted
        res == CASE func = "_color_transfer" ->
                        ColorTransfer(x, relight_coeffs, tf.channels)
                 [] func = "_polynomial_match" ->
                        PolynomialMatch(x, relight_coeffs, tf.channels,
                                        tf.color_tfs)
                 [] OTHER -> Raise("NotImplementedError")
    IN  IF func = "_no_relight" THEN NoRelight(store, 1)
        ELSE IF res.st = "error" THEN [store |-> store, ret |-> res]
        ELSE [store |-> Append(store, res.val),
              ret |-> Ok([ref |-> Len(store) + 1, inverse |-> tf.color_tfs])]

\* RelightTransform(method)(inputs, relight_coeffs[None]) on one image: the
\* image returned.
Relight(method, inputs, relight_coeffs) ==
    LET tf == RelightTransformInit(method)
        r == Forward(<<ToTensor(<<inputs>>)>>, tf.val, <<>>,
                     Unsqueeze(relight_coeffs))
    IN  IF tf.st = "error" THEN tf
        ELSE IF r.ret.st = "error" THEN r.ret
        ELSE Ok(r.store[r.ret.val.ref][1])

\* The methods of RELIGHT_METHODS (hparams.py) that work on RGB values.
RgbMethods ==
    { SPercentile, SPolynomial, SPolynomial \o SUs \o SMax,
      SPolynomial \o SUs \o SMean, SColorTransfer }

\* Colours of the photograph: a grey and a colour with unequal channels.
ImageColors == { <<1, 1, 1>>, <<MaxLevel, 1, 0>> }

\* Colours of the synthetic object, which is of one colour.
SynObjColors == { <<MaxLevel, MaxLevel, MaxLevel>>, <<MaxLevel, 1, 0>> }

\* Masks of the canonical sign, one value per pixel; the first pixel may
\* hold a value that is neither 0 nor 1.
Masks == {m \in [1..MaxPix -> {0, 1, 2}] : \A i \in 2..MaxPix : m[i] # 2}

\* The translations: none, one pixel, and out of the image.
Shifts == {0, 1, MaxPix}

InitPipeline ==
    /\ \E img \in PixelSeqs(ImageColors, MaxPix) : \E obj_mask \in Masks :
       \E t \in Shifts : \E method \in RgbMethods :
       \E color \in SynObjColors : \E percentile \in {0, 250} :
       \E deg \in (IF StrIn(SPolynomial, method) THEN Degrees ELSE {1}) :
       \E tie \in (IF StrIn(SPolynomial, method) THEN {"low", "high"}
                   ELSE {"low"}) :
          call = [fn |-> "compute_relight_params", img |-> img,
                  method |-> method, obj_mask |-> obj_mask, t |-> t,
                  syn_obj |-> [i \in 1..MaxPix |-> color],
                  percentile |-> percentile, polynomial_degree |-> deg,
                  tie |-> tie]
    /\ coeffs = Pending
    /\ out = Pending
    /\ mem = <<>>

ComputeRelightParamsCall ==
    /\ call.fn = "compute_relight_params"
    /\ coeffs = Pending
    /\ coeffs' = ComputeRelightParams(call.img, call.method, call.obj_mask,
                                      call.t, call.syn_obj, call.percentile,
                                      call.polynomial_degree, call.tie)
    /\ mem' = [real_pixels |-> FitSample(call.img, call.method,
                                         call.obj_mask, call.t)]
    /\ UNCHANGED <<call, out>>

RelightCall ==
    /\ call.fn = "compute_relight_params"
    /\ coeffs.st = "ok"
    /\ out = Pending
    /\ out' = Relight(call.method, call.syn_obj,
                      [ndim |-> 2, data |-> coeffs.val])
    /\ UNCHANGED <<call, coeffs, mem>>

NextPipeline == ComputeRelightParamsCall \/ RelightCall

SpecPipeline == InitPipeline /\ [][NextPipeline]_vars

\* The pixels compute_relight_params takes its real sample from.
FitRegion ==
    LET warped == StrIn(SPercentile, call.method)
                  \/ StrIn(SPolynomial, call.method)
        mask == IF warped THEN Warp(call.obj_mask, call.t, 0)
                ELSE call.obj_mask
    IN  {i \in 1..Len(mask) : mask[i] = 1}

FitDone == call.fn = "compute_relight_params" /\ coeffs.st # "pending"

RelightDone == call.fn = "compute_relight_params" /\ out.st # "pending"

\* C3: when the object region of the photograph is of one colour, whatever
\* the colour, and the synthetic object is of one colour, the coefficients
\* fitted by "percentile" applied to the synthetic object give the
\* region's colour in every channel of every object pixel.
C3_PercentileReproducesColor ==
    ( /\ RelightDone
      /\ call.method = SPercentile
      /\ FitRegion # {}
      /\ \A i \in FitRegion : \A j \in FitRegion : call.img[i] = call.img[j] )
    => /\ out.st = "ok"
       /\ \A i \in 1..Len(call.obj_mask) : \A c \in 1..3 :
             call.obj_mask[i] = 1 =>
                 \A j \in FitRegion : out.val[i][c] = Pix(call.img[j][c])

\* C9: when the mask selects no pixel of the image, compute_relight_params
\* fails with an error, whatever the method.
C9_EmptyRegionFails ==
    (FitDone /\ FitRegion = {}) => coeffs.st = "error"

\* C10: forward of a percentile or polynomial method returns, without
\* raising, an image whose values all lie in [0, 1].
C10_OutputInRange ==
    (RelightDone /\ ForwardFunc(call.method) = "_polynomial_match") =>
        /\ out.st = "ok"
        /\ \A i \in 1..Len(out.val) : \A c \in 1..3 :
              FLe(Zero, out.val[i][c]) /\ FLe(out.val[i][c], One)

(***************************************************************************)
(* RelightTransform(method) applied to a batch of one-pixel images with    *)
(* coefficients of any shape, next to the dispatch of                      *)
(* compute_relight_params for the same method.  mem holds the tensor       *)
(* storages: mem[1] is the input, a result is appended.  What a colour     *)
(* transform of the library makes of the input is an image of its own,     *)
(* drawn with the input.                                                   *)
(***************************************************************************)
\* RELIGHT_METHODS of hparams.py.
RelightMethods ==
    RgbMethods \cup
    { SColorTransfer \o SUs \o SHsv \o SDashSv,
      SColorTransfer \o SUs \o SLab \o SDashL,
      SPolynomial \o SUs \o SHsv \o SDashSv,
      SPolynomial \o SUs \o SLab \o SDashL }

\* With them: the no-op, the custom Lab colour transfer, two names of no
\* family and a name of two families.
ApplyMethods ==
    RelightMethods \cup
    { SNone, SColorTransfer \o SUs \o SLab, <<>>,
      <<"h", "i", "s", "t", "o", "g", "r", "a", "m">>,
      SPercentile \o SUs \o SColorTransfer \o SUs \o SHsv }

ApplyBatches(colors) ==
    UNION {[1..n -> PixelSeqs(colors, 1)] : n \in 1..2}

CoeffRows == { <<Q(1, 2), Q(1, 4)>>, <<Q(2, 1), Zero>> }

\* Coefficient tensors of rank 2, 3 and 4, and None.
CoeffTensors ==
    LET rank3(r) == {[b \in 1..nb |-> [c \in 1..nc |-> r]] :
                        nb \in 1..3, nc \in 1..3}
    IN  {NoneCoeffs}
        \cup UNION {{[ndim |-> 3, data |-> d] : d \in rank3(r)} :
                       r \in CoeffRows}
        \cup {[ndim |-> 2, data |-> [c \in 1..nc |-> r]] :
                 nc \in {1, 3}, r \in CoeffRows}
        \cup {[ndim |-> 4, data |-> <<<<[c \in 1..3 |-> r]>>>>] :
                 r \in CoeffRows}

InitApply ==
    /\ \E method \in ApplyMethods : \E inputs \in ApplyBatches(ImageColors) :
       \E converted \in ApplyBatches(SynObjColors) :
       \E relight_coeffs \in CoeffTensors :
          /\ Len(converted) = Len(inputs)
          /\ call = [fn |-> "forward", method |-> method, inputs |-> inputs,
                     converted |-> ToTensor(converted),
                     relight_coeffs |-> relight_coeffs]
          /\ mem = <<ToTensor(inputs)>>
    /\ coeffs = Pending
    /\ out = Pending

ComputeRelightDispatchCall ==
    /\ call.fn = "forward"
    /\ coeffs = Pending
    /\ coeffs' = ComputeRelightDispatch(call.method)
    /\ UNCHANGED <<call, out, mem>>

ForwardCall ==
    /\ call.fn = "forward"
    /\ out = Pending
    /\ LET tf == RelightTransformInit(call.method)
           r == Forward(mem, tf.val, call.converted, call.relight_coeffs)
       IN  IF tf.st = "error" THEN out' = tf /\ mem' = mem
           ELSE out' = r.ret /\ mem' = r.store
    /\ UNCHANGED <<call, coeffs>>

\* The caller changes, in place, the tensor the no-op transform returned.
WriteOutput ==
    /\ call.fn = "forward"
    /\ call.method = SNone
    /\ out.st = "ok"
    /\ mem' = [mem EXCEPT ![out.val.ref][1][1][1] = Q(-1, 1)]
    /\ mem' # mem
    /\ UNCHANGED <<call, coeffs, out>>

NextApply == ComputeRelightDispatchCall \/ ForwardCall \/ WriteOutput

SpecApply == InitApply /\ [][NextApply]_vars

ForwardDone == call.fn = "forward" /\ out.st # "pending"

\* C11: with method "none" forward returns, whatever the coefficients, a
\* tensor equal to the input in a storage of its own: the input stays as it
\* was, also when the output is changed afterwards.
C11_NoRelightCopies ==
    (ForwardDone /\ call.method = SNone) =>
        /\ out.st = "ok"
        /\ out.val.ref # 1
        /\ mem[1] = ToTensor(call.inputs)
        /\ \/ mem[out.val.ref] = mem[1]
           \/ mem[out.val.ref] = [mem[1] EXCEPT ![1][1][1] = Q(-1, 1)]

\* The output of the no-op transform was changed, with coefficients None.
C11_Witness ==
    /\ ForwardDone
    /\ call.method = SNone
    /\ call.relight_coeffs = NoneCoeffs
    /\ out.st = "ok"
    /\ mem[out.val.ref] # mem[1]

UnknownMethod ==
    /\ call.fn = "forward"
    /\ ~StrIn(SColorTransfer, call.method)
    /\ ~StrIn(SPercentile, call.method)
    /\ ~StrIn(SPolynomial, call.method)
    /\ call.method # SNone

FunctionalForm(func) ==
    CASE func \in {"_simple_percentile", "_fit_polynomial",
                   "_polynomial_match"} -> "polynomial"
      [] func \in {"_get_color_transfer_params", "_color_transfer"} ->
             "scale and offset"
      [] OTHER -> "none"

\* C13: for every method string compute_relight_params invokes exactly one
\* fitter, and the apply function forward chooses has that fitter's
\* functional form: polynomial evaluation for the percentile and polynomial
\* fitters, scale and offset for the colour transfer fitter.
C13_FitterMatchesApply ==
    (call.fn = "forward" /\ coeffs.st # "pending") =>
        /\ coeffs.st = "ok"
        /\ coeffs.val.fitter \in {"_simple_percentile", "_fit_polynomial",
                                  "_get_color_transfer_params"}
        /\ FunctionalForm(coeffs.val.fitter) =
               FunctionalForm(ForwardFunc(call.method))

\* C14: for every method of RELIGHT_METHODS the colour space the samples
\* are fitted in is the one RelightTransform converts to before it uses the
\* coefficients, and converts back from afterwards.
C14_FitSpaceIsApplySpace ==
    (call.fn = "forward" /\ coeffs.st # "pending"
        /\ call.method \in RelightMethods) =>
        LET tf == RelightTransformInit(call.method)
        IN  /\ coeffs.st = "ok"
            /\ tf.st = "ok"
            /\ coeffs.val.img = tf.val.color_tfs
            /\ coeffs.val.syn \in {"unused", tf.val.color_tfs}

\* The channels the suffix of the method leaves alone.
OtherChannels ==
    IF StrIn(SDashSv, call.method) THEN {0}
    ELSE IF StrIn(SDashL, call.method) THEN {1, 2}
    ELSE {}

\* C15: with a channel restriction ("-sv": channels 1 and 2, "-l": channel
\* 0) every other channel of the result, in the working colour space, is
\* exactly the value the forward conversion gave it.
C15_OtherChannelsKept ==
    (ForwardDone /\ out.st = "ok") =>
        \A b \in 1..Len(mem[out.val.ref]) : \A c \in OtherChannels :
            mem[out.val.ref][b][1][c + 1] = call.converted[b][1][c + 1]

\* A restricted transform changed a channel it is restricted to.
C15_Witness ==
    /\ ForwardDone
    /\ out.st = "ok"
    /\ OtherChannels = {0}
    /\ mem[out.val.ref][1][1][2] # call.converted[1][1][2]
    /\ mem[out.val.ref][1][1][1] = call.converted[1][1][1]

\* forward reached _polynomial_match with a coefficient tensor.
PolynomialApplied ==
    /\ ForwardDone
    /\ RelightTransformInit(call.method).st = "ok"
    /\ ForwardFunc(call.method) = "_polynomial_match"
    /\ call.relight_coeffs.ndim # -1

\* The three faults of a coefficient tensor.
WrongRank == call.relight_coeffs.ndim # 3

WrongBatch ==
    /\ call.relight_coeffs.ndim = 3
    /\ Len(call.relight_coeffs.data) \notin {1, Len(call.inputs)}

WrongChannels ==
    /\ call.relight_coeffs.ndim = 3
    /\ RelightTransformInit(call.method).val.channels = <<>>
    /\ Len(call.relight_coeffs.data[1]) \notin {1, 3}

\* C20: the polynomial apply raises ValueError, with nothing transformed,
\* when the coefficient tensor is not of rank 3, when its batch size is
\* neither 1 nor the batch size of the input, or when no channel subset is
\* set and its channel dimension is neither 1 nor 3.
C20_BadCoefficientsRaise ==
    (PolynomialApplied /\ (WrongRank \/ WrongBatch \/ WrongChannels)) =>
        /\ out = Raise("ValueError")
        /\ mem = <<ToTensor(call.inputs)>>

\* Only the batch size of the coefficients was wrong.
C20_Witness ==
    /\ PolynomialApplied
    /\ WrongBatch
    /\ ~WrongChannels
    /\ out = Raise("ValueError")

PolyDone == call.fn = "_fit_polynomial" /\ coeffs.st = "ok"

\* The pairs of the i-th fitted channel before the trimming, and their
\* residuals.
SynBefore(i) ==
    PolyReduce(call.syn_pixels, call.mode)[PolyChannels(call.mode)[i] + 1]

RealBefore(i) ==
    PolyReduce(call.real_pixels, call.mode)[PolyChannels(call.mode)[i] + 1]

Residual(i, j) == FAbs(FSub(SynBefore(i)[j], RealBefore(i)[j]))

Kept(i) == {coeffs.val[i].indices[j] : j \in 1..Len(coeffs.val[i].indices)}

\* k is the integer nearest to (4 - quarters) * n / 4, the even one of two.
IsRounded(k, quarters, n) ==
    /\ Abs(4 * k - (4 - quarters) * n) <= 2
    /\ Abs(4 * k - (4 - quarters) * n) = 2 => k % 2 = 0

\* C16: the polynomial fitter fits each channel on exactly
\* round((1 - percentile) * n) of its n pairs, no kept pair has a larger
\* |syn - real| than a discarded one, and percentile 0 keeps all n.
C16_TrimmedPairs ==
    PolyDone =>
        \A i \in 1..Len(coeffs.val) :
            LET n == Len(RealBefore(i))
                r == coeffs.val[i]
            IN  /\ IsRounded(Len(r.indices), call.quarters, n)
                /\ Kept(i) \subseteq 1..n
                /\ Cardinality(Kept(i)) = Len(r.indices)
                /\ r.syn = [j \in 1..Len(r.indices) |->
                               SynBefore(i)[r.indices[j]]]
                /\ r.real = [j \in 1..Len(r.indices) |->
                                RealBefore(i)[r.indices[j]]]
                /\ \A j \in Kept(i) : \A d \in (1..n) \ Kept(i) :
                       FLe(Residual(i, j), Residual(i, d))
                /\ call.quarters = 0 => Kept(i) = 1..n

\* A pair was dropped whose residual is larger than that of a kept one.
C16_Witness ==
    /\ PolyDone
    /\ \E i \in 1..Len(coeffs.val) :
       \E j \in Kept(i) : \E d \in (1..Len(RealBefore(i))) \ Kept(i) :
           FLt(Residual(i, j), Residual(i, d))

\* The method warps the mask into the frame of the image.
FitsImage ==
    StrIn(SPercentile, call.method) \/ StrIn(SPolynomial, call.method)

\* The positions of the image frame the warped mask is 1 at, and the
\* positions of its own frame the mask is 1 at.
WarpedMaskOnes ==
    {i \in 1..MaxPix : i - call.t \in 1..MaxPix /\ call.obj_mask[i - call.t] = 1}

MaskOnes == {i \in 1..MaxPix : call.obj_mask[i] = 1}

\* The elements of a set of numbers in increasing order.
Ascending(S) ==
    CHOOSE s \in [1..Cardinality(S) -> S] :
        \A i, j \in 1..Cardinality(S) : i < j => s[i] < s[j]

\* C17: the extractor returns three sequences, one per channel, of one
\* length: the number of positions where the mask it uses, warped or not,
\* is exactly 1; a position of any other value contributes nothing.
C17_SampleLength ==
    FitDone =>
        /\ Len(mem.real_pixels) = 3
        /\ \A c \in 1..3 :
               Len(mem.real_pixels[c]) =
                   Cardinality(IF FitsImage THEN WarpedMaskOnes ELSE MaskOnes)

\* A mask with a pixel of value 2 gave a sample that is not empty.
C17_Witness ==
    /\ FitDone
    /\ \E i \in 1..MaxPix : call.obj_mask[i] = 2
    /\ IF FitsImage THEN call.t = 0 ELSE TRUE
    /\ Len(mem.real_pixels[1]) > 0

\* The image read at the positions where the warped mask is 1.
ImageAtWarpedMask ==
    [c \in 1..3 |-> [k \in 1..Cardinality(WarpedMaskOnes) |->
        Pix(call.img[Ascending(WarpedMaskOnes)[k]][c])]]

\* The image warped into the frame of the mask, read where the mask is 1.
WarpedImageAtMask ==
    [c \in 1..3 |-> [k \in 1..Cardinality(MaskOnes) |->
        LET i == Ascending(MaskOnes)[k]
        IN  IF i - call.t \in 1..MaxPix THEN Pix(call.img[i - call.t][c])
            ELSE Zero]]

\* C18: for every fitting method the real sample is the image, itself not
\* warped, read at the positions of the object mask warped into the frame
\* of the image.
C18_MaskWarpedForEveryMethod ==
    FitDone => mem.real_pixels = ImageAtWarpedMask

\* C18, for the methods it holds for: the percentile and polynomial methods
\* read the image at the positions of the warped mask; colour transfer
\* warps the image into the frame of the mask and reads it at the positions
\* of the mask as given.
C18_MaskOrImageWarped ==
    FitDone =>
        mem.real_pixels =
            IF FitsImage THEN ImageAtWarpedMask ELSE WarpedImageAtMask

\* A shifted mask selected pixels other than the mask as given would.
C18_Witness ==
    /\ FitDone
    /\ FitsImage
    /\ call.t = 1
    /\ WarpedMaskOnes # {}
    /\ WarpedMaskOnes # MaskOnes
    /\ mem.real_pixels = ImageAtWarpedMask

(***************************************************************************)
(* The loop of run_realism_test_main.py over the annotation rows: row      *)
(* index of the default index of read_csv, call.exists[index + 1] whether  *)
(* its image file is there.  coeffs is the variable relight_coeffs, with   *)
(* the row its value was computed at, mem the index of the next row, out   *)
(* the last relighting or the exception that ended the script.             *)
(***************************************************************************)
Unbound == Pending

NoneValue == [st |-> "none", val |-> <<>>, exc |-> ""]

\* The loop without the reset of line 119.
ResetCoeffsSkipped(is_clean, relight_coeffs) == relight_coeffs

\* Lines 117-119.
ResetCoeffs(is_clean, relight_coeffs) ==
    IF is_clean THEN NoneValue ELSE relight_coeffs

InitLoop ==
    /\ \E n \in 2..MaxRows : \E exists \in [1..n -> BOOLEAN] :
          call = [fn |-> "main", exists |-> exists]
    /\ coeffs = Unbound
    /\ out = Pending
    /\ mem = 0

\* One pass of the loop body on a clean row: the reset, the file test,
\* and the fit of lines 341-359.
CleanRow ==
    /\ call.fn = "main"
    /\ out.st # "error"
    /\ mem < Len(call.exists)
    /\ mem % 2 = 0
    /\ coeffs' = IF call.exists[mem + 1] THEN Ok(mem)
                 ELSE ResetCoeffs(TRUE, coeffs)
    /\ mem' = mem + 1
    /\ UNCHANGED <<call, out>>

\* One pass on an adversarial row: the assertion, the file test, and the
\* relighting of line 377.
AdversarialRow ==
    /\ call.fn = "main"
    /\ out.st # "error"
    /\ mem < Len(call.exists)
    /\ mem % 2 = 1
    /\ LET relight_coeffs == ResetCoeffs(FALSE, coeffs)
       IN  IF relight_coeffs.st # "ok"
           THEN out' = Raise("AssertionError") /\ UNCHANGED <<coeffs, mem>>
           ELSE /\ coeffs' = relight_coeffs
                /\ mem' = mem + 1
                /\ out' = IF call.exists[mem + 1]
                          THEN Ok([row |-> mem,
                                   relight_coeffs |-> relight_coeffs.val])
                          ELSE out
    /\ UNCHANGED call

NextLoop == CleanRow \/ AdversarialRow

SpecLoop == InitLoop /\ [][NextLoop]_vars

\* C19: an adversarial row 2k + 1 that is relit uses the coefficients
\* computed at the clean row 2k; the coefficients are reset at every clean
\* row, so none of an earlier pair is ever held after it; and when row 2k
\* produced none, row 2k + 1 stops the script with an assertion failure.
C19_PairCoefficients ==
    call.fn = "main" =>
        /\ out.st = "ok" =>
               /\ out.val.row % 2 = 1
               /\ out.val.relight_coeffs = out.val.row - 1
               /\ call.exists[out.val.row]
        /\ (coeffs.st = "ok" /\ mem > 0) =>
               coeffs.val = 2 * ((mem - 1) \div 2)
        /\ \A k \in 0..MaxRows :
               (2 * k + 1 < mem) => call.exists[2 * k + 1]
        /\ out.st = "error" =>
               /\ out = Raise("AssertionError")
               /\ mem % 2 = 1
               /\ ~call.exists[mem]

\* A pair was relit, the clean row of the next pair had no file, and its
\* adversarial row stopped the script.
C19_Witness ==
    /\ call.fn = "main"
    /\ out = Raise("AssertionError")
    /\ mem = 3
    /\ call.exists[1] /\ call.exists[2]
    /\ coeffs = NoneValue

\* C21: a method of RELIGHT_METHODS that compute_relight_params fitted
\* coefficients for is accepted for applying: constructing RelightTransform
\* with it and calling forward with the fitted coefficients raises neither
\* ValueError nor NotImplementedError.
C21_FittedMethodApplies ==
    (RelightDone /\ coeffs.st = "ok" /\ call.method \in RelightMethods) =>
        out.exc \notin {"ValueError", "NotImplementedError"}

\* A method of RELIGHT_METHODS with a channel subset was fitted.
SubsetFitted ==
    /\ call.fn = "forward"
    /\ coeffs.st = "ok"
    /\ call.method \in RelightMethods
    /\ StrIn(SDashSv, call.method) \/ StrIn(SDashL, call.method)

\* The channels the transform of the method modifies.
ModifiedChannels ==
    LET channels == RelightTransformInit(call.method).val.channels
    IN  {channels[j] : j \in 1..Len(channels)}

\* Each modified channel is given the row that was fitted from it.
RowsAligned ==
    LET channels == RelightTransformInit(call.method).val.channels
        fitted == coeffs.val.channels
    IN  /\ ModifiedChannels =
               (IF StrIn(SDashSv, call.method) THEN {1, 2} ELSE {0})
        /\ \A c \in ModifiedChannels :
               LET r == CoeffRow(ForwardFunc(call.method), channels, c) + 1
               IN  r \in 1..Len(fitted) /\ fitted[r] = c

FittedSet == {coeffs.val.channels[j] : j \in 1..Len(coeffs.val.channels)}

\* C22: for a method of RELIGHT_METHODS with a channel subset, the row the
\* fitter produced from channel c is the row the transform uses on channel
\* c, and the channels fitted are the channels modified.
C22_FittedAreModified ==
    SubsetFitted => RowsAligned /\ FittedSet = ModifiedChannels

\* C22, as it holds: the rows are aligned; the polynomial fitter fits the
\* channels that are modified and no other, the colour transfer fitter
\* fits all three channels whatever the subset.
C22_RowsAligned ==
    SubsetFitted =>
        /\ RowsAligned
        /\ FittedSet = IF coeffs.val.fitter = "_fit_polynomial"
                       THEN ModifiedChannels ELSE {0, 1, 2}

\* The polynomial of saturation and value was fitted and applied.
C22_Witness ==
    /\ SubsetFitted
    /\ call.method = SPolynomial \o SUs \o SHsv \o SDashSv
    /\ ForwardDone
    /\ out.st = "ok"

(***************************************************************************)
(* DPatchYolofAttack around an attack.  mem is the model: its modules,     *)
(* the wrapper first when the model is wrapped, each with its training     *)
(* flag and the attributes of a YOLOF model (thresholds in tenths, -1      *)
(* where a module has no such attribute).  coeffs is the attack object,    *)
(* a configured threshold of -1 being None.  out records the last call     *)
(* and the training flag found at the last _on_enter_attack.               *)
(***************************************************************************)
\* The thresholds always written to the first module.
CoreOfOuter(model) == 1

\* Lines 34-35, 47-50, 58-61: core_model.module if the model has one.
CoreOf(model) == IF Len(model) = 2 THEN 2 ELSE 1

\* A train(mode) that leaves the flags as they are.
TrainKept(model, mode) == model

\* nn.Module.train(mode): the flag of the module and of its children.
Train(model, mode) == [i \in 1..Len(model) |-> [model[i] EXCEPT !.training = mode]]

\* nn.Module.eval()
Eval(model) == [i \in 1..Len(model) |-> [model[i] EXCEPT !.training = FALSE]]

\* Lines 31-42, after the constructor of the base class has read the
\* three thresholds of attack_config.
DPatchYolofInit(attack_config, model) ==
    LET core_model == model[CoreOf(model)]
        orig(value, own) == IF value = -1 THEN own ELSE value
    IN  [_nms_thres_orig |-> core_model.test_nms_thresh,
         _conf_thres_orig |-> core_model.test_score_thresh,
         _iou_thres_orig |-> core_model.pos_ignore_thresh,
         _nms_thres |-> orig(attack_config.nms_thres,
                             core_model.test_nms_thresh),
         _min_conf |-> orig(attack_config.min_conf,
                            core_model.test_score_thresh),
         _iou_thres |-> orig(attack_config.iou_thres,
                             core_model.pos_ignore_thresh),
         _is_training |-> FALSE]

YolofModules ==
    [training : BOOLEAN, attack_mode : {FALSE}, test_nms_thresh : {5, 6},
     test_score_thresh : {5}, pos_ignore_thresh : {5, 6}]

InitDPatch ==
    /\ \E core \in YolofModules : \E wrapped \in BOOLEAN :
       \E attack_config \in [nms_thres : {-1, 3}, min_conf : {-1, 3},
                             iou_thres : {-1, 3}] :
          LET wrapper == [training |-> core.training, attack_mode |-> FALSE,
                          test_nms_thresh |-> -1, test_score_thresh |-> -1,
                          pos_ignore_thresh |-> -1]
              model == IF wrapped THEN <<wrapper, core>> ELSE <<core>>
          IN  /\ call = [fn |-> "DPatchYolofAttack",
                         attack_config |-> attack_config, core_model |-> model]
              /\ mem = model
              /\ coeffs = DPatchYolofInit(attack_config, model)
    /\ out = [last |-> "__init__", training |-> FALSE]

\* _on_enter_attack (lines 44-54)
OnEnterAttack ==
    /\ call.fn = "DPatchYolofAttack"
    /\ out.last # "_on_enter_attack"
    /\ coeffs' = [coeffs EXCEPT !._is_training = mem[1].training]
    /\ mem' = [Eval(mem) EXCEPT ![CoreOf(mem)] =
                  [@ EXCEPT !.attack_mode = TRUE,
                            !.test_nms_thresh = coeffs._nms_thres,
                            !.test_score_thresh = coeffs._min_conf,
                            !.pos_ignore_thresh = coeffs._iou_thres]]
    /\ out' = [last |-> "_on_enter_attack", training |-> mem[1].training]
    /\ UNCHANGED call

\* _on_exit_attack (lines 56-65)
OnExitAttack ==
    /\ call.fn = "DPatchYolofAttack"
    /\ out.last = "_on_enter_attack"
    /\ mem' = [Train(mem, coeffs._is_training) EXCEPT ![CoreOf(mem)] =
                  [@ EXCEPT !.attack_mode = FALSE,
                            !.test_nms_thresh = coeffs._nms_thres_orig,
                            !.test_score_thresh = coeffs._conf_thres_orig,
                            !.pos_ignore_thresh = coeffs._iou_thres_orig]]
    /\ out' = [out EXCEPT !.last = "_on_exit_attack"]
    /\ UNCHANGED <<call, coeffs>>

\* Between attacks the trainer puts the model in training or eval mode.
TrainerSetsMode ==
    /\ call.fn = "DPatchYolofAttack"
    /\ out.last # "_on_enter_attack"
    /\ \E mode \in BOOLEAN : mem' = Train(mem, mode)
    /\ mem' # mem
    /\ out' = [out EXCEPT !.last = "train"]
    /\ UNCHANGED <<call, coeffs>>

NextDPatch == OnEnterAttack \/ OnExitAttack \/ TrainerSetsMode

SpecDPatch == InitDPatch /\ [][NextDPatch]_vars

\* The module of the model that carries the thresholds, now and when the
\* attack was constructed.
CoreNow == mem[Len(mem)]

CoreAtInit == call.core_model[Len(call.core_model)]

\* C23: after _on_enter_attack followed by _on_exit_attack, and after any
\* number of such pairs, the three thresholds of the core model are those
\* it had when the attack was constructed, attack_mode is False and the
\* training flag of the model is the one it had just before
\* _on_enter_attack.
C23_ExitRestores ==
    (call.fn = "DPatchYolofAttack" /\ out.last = "_on_exit_attack") =>
        /\ CoreNow.test_nms_thresh = CoreAtInit.test_nms_thresh
        /\ CoreNow.test_score_thresh = CoreAtInit.test_score_thresh
        /\ CoreNow.pos_ignore_thresh = CoreAtInit.pos_ignore_thresh
        /\ CoreNow.attack_mode = FALSE
        /\ \A i \in 1..Len(mem) : mem[i].training = out.training

\* An attack on a model in training mode, with thresholds of its own, has
\* ended, the mode having been changed since the construction.
C23_Witness ==
    /\ call.fn = "DPatchYolofAttack"
    /\ out.last = "_on_exit_attack"
    /\ out.training
    /\ ~CoreAtInit.training
    /\ call.attack_config.nms_thres = 3

\* The value a threshold has during the attack.
Configured(value, own) == IF value = -1 THEN own ELSE value

\* C24: between _on_enter_attack and _on_exit_attack the model is in eval
\* mode, attack_mode is True and each threshold is the configured value,
\* or the model's own value at construction when None is configured; on a
\* wrapped model these are set on the inner module.
C24_AttackSettings ==
    (call.fn = "DPatchYolofAttack" /\ out.last = "_on_enter_attack") =>
        /\ \A i \in 1..Len(mem) : ~mem[i].training
        /\ CoreNow.attack_mode
        /\ CoreNow.test_nms_thresh =
               Configured(call.attack_config.nms_thres,
                          CoreAtInit.test_nms_thresh)
        /\ CoreNow.test_score_thresh =
               Configured(call.attack_config.min_conf,
                          CoreAtInit.test_score_thresh)
        /\ CoreNow.pos_ignore_thresh =
               Configured(call.attack_config.iou_thres,
                          CoreAtInit.pos_ignore_thresh)
        /\ Len(mem) = 2 =>
               mem[1] = [call.core_model[1] EXCEPT !.training = FALSE]

\* A wrapped model that was in training mode is under attack, with one
\* threshold configured and one left to the model.
C24_Witness ==
    /\ call.fn = "DPatchYolofAttack"
    /\ out.last = "_on_enter_attack"
    /\ Len(mem) = 2
    /\ out.training
    /\ call.attack_config.nms_thres = -1
    /\ call.attack_config.iou_thres = 3
    /\ coeffs._is_training

(***************************************************************************)
(* get_mapillary_dict, one label file per step.  A label file is a list    *)
(* of objects, each with its class, and with the number of target points   *)
(* of its row in the annotation table (row FALSE: no row for its id).      *)
(* mem holds the index of the next file, the image ids of dataset_dicts    *)
(* and the file just read; out is what the pass on that file gave: the     *)
(* record appended, nothing, or the exception that ends the call.          *)
(***************************************************************************)
\* bg_class, by default
BgClass == 10

\* tgt_points of a row, of which an object has the first few.
TgtPoints == <<<<0, 0>>, <<4, 0>>, <<4, 3>>, <<0, 3>>, <<2, 2>>>>

\* The class of an object kept whatever the table says.
ObjectClassKept(class_id, has_table, row, bg_class) == class_id

\* Lines 127-135: the class of an object without a row is the background.
ObjectClass(class_id, has_table, row, bg_class) ==
    IF has_table /\ ~row THEN bg_class ELSE class_id

\* Lines 161-188: the keypoints of an annotated object, coordinates in
\* thirds of a pixel, or the AssertionError of lines 168 and 186.
Keypoints(n, scales, padding) ==
    LET point(i) == <<3 * (TgtPoints[i][1] * scales[2] + padding[1]),
                      3 * (TgtPoints[i][2] * scales[1] + padding[2]), 2>>
        keypoints == Flatten([i \in 1..n |-> point(i)])
        third(k) == (keypoints[k] + keypoints[k + 3] + keypoints[k + 6]) \div 3
    IN  IF n > 4 THEN Raise("AssertionError")
        ELSE IF n = 3
        THEN Ok(keypoints \o <<third(1), third(2), 2>>)
        ELSE IF n # 4 THEN Raise("AssertionError")
        ELSE Ok(keypoints)

\* Lines 113-196 for one line of the label file: the annotation, "skip"
\* for the continue of line 139, or the exception.
MapillaryObject(orig_obj, obj_id, args) ==
    LET has_table == args.anno_df
        class_id == ObjectClass(orig_obj.class_id, has_table, orig_obj.row,
                                args.bg_class)
        plain == [category_id |-> class_id, object_id |-> obj_id,
                  has_reap |-> FALSE,
                  keypoints |-> [i \in 1..12 |-> 0], coeffs |-> {}]
        keypoints == Keypoints(orig_obj.tgt, args.scales, args.padding)
    IN  IF args.ignore_bg_class /\ class_id = args.bg_class
        THEN [st |-> "skip", val |-> <<>>, exc |-> ""]
        ELSE IF ~(0 <= class_id /\ class_id <= args.bg_class)
        THEN Raise("AssertionError")
        ELSE IF has_table /\ orig_obj.row /\ class_id # args.bg_class
        THEN (IF keypoints.st = "error" THEN keypoints
              ELSE Ok([plain EXCEPT !.has_reap = TRUE,
                                    !.keypoints = keypoints.val,
                                    !.coeffs = args.columns]))
        ELSE Ok(plain)

\* Lines 111-196: objs, or the first exception.
RECURSIVE MapillaryObjects(_, _, _)
MapillaryObjects(labels, k, args) ==
    IF k > Len(labels) THEN Ok(<<>>)
    ELSE LET obj == MapillaryObject(labels[k], k, args)
             rest == MapillaryObjects(labels, k + 1, args)
         IN  IF obj.st = "error" THEN obj
             ELSE IF rest.st = "error" THEN rest
             ELSE IF obj.st = "skip" THEN rest
             ELSE Ok(<<obj.val>> \o rest.val)

\* A test that lets through every image with an object.
NoObjectOfInterestEmpty(objs, bg_class) == objs = <<>>

\* Line 199
NoObjectOfInterest(objs, bg_class) ==
    objs = <<>> \/ \A i \in 1..Len(objs) : objs[i].category_id = bg_class

\* The lines of a label file: at least the first, which gives the size.
\* The first object is of any kind; the further ones are a sign with four
\* points in the table, a sign without a row or a background object.
LabelFiles ==
    LET orig_objs ==
            [class_id : {0, BgClass}, row : {TRUE}, tgt : 2..5]
            \cup [class_id : {0, BgClass, BgClass + 1}, row : {FALSE},
                  tgt : {0}]
        further ==
            {[class_id |-> 0, row |-> TRUE, tgt |-> 4],
             [class_id |-> 0, row |-> FALSE, tgt |-> 0],
             [class_id |-> BgClass, row |-> FALSE, tgt |-> 0]}
    IN  UNION {{labels \in [1..n -> orig_objs] :
                   \A k \in 2..n : labels[k] \in further} :
               n \in 1..MaxObjs}

InitMapillary ==
    /\ \E ignore_bg_class \in BOOLEAN : \E anno_df \in BOOLEAN :
       \E resized \in BOOLEAN : \E columns \in {{}, {SPercentile}} :
          call = [fn |-> "get_mapillary_dict", bg_class |-> BgClass,
                  ignore_bg_class |-> ignore_bg_class, anno_df |-> anno_df,
                  scales |-> IF resized THEN <<2, 2>> ELSE <<1, 1>>,
                  padding |-> IF resized THEN <<1, 0, 1, 0>>
                              ELSE <<0, 0, 0, 0>>,
                  columns |-> IF anno_df THEN columns ELSE {}]
    /\ coeffs = Unused
    /\ out = Pending
    /\ mem = [idx |-> 0, image_ids |-> <<>>, labels |-> <<>>]

\* One pass of the loop of line 80.
LabelFileStep ==
    /\ call.fn = "get_mapillary_dict"
    /\ out.st # "error"
    /\ mem.idx < MaxFiles
    /\ \E labels \in LabelFiles :
          LET objs == MapillaryObjects(labels, 1, call)
              skip == objs.st = "ok"
                      /\ NoObjectOfInterest(objs.val, call.bg_class)
          IN  /\ out' = IF objs.st = "error" THEN objs
                        ELSE IF skip
                        THEN [st |-> "skip", val |-> <<>>, exc |-> ""]
                        ELSE Ok([image_id |-> mem.idx,
                                 annotations |-> objs.val])
              /\ mem' = [idx |-> mem.idx + 1,
                         image_ids |-> IF objs.st = "ok" /\ ~skip
                                       THEN Append(mem.image_ids, mem.idx)
                                       ELSE mem.image_ids,
                         labels |-> labels]
    /\ UNCHANGED <<call, coeffs>>

NextMapillary == LabelFileStep

SpecMapillary == InitMapillary /\ [][NextMapillary]_vars

RecordAppended == call.fn = "get_mapillary_dict" /\ out.st = "ok"

\* C25: every record of get_mapillary_dict has an annotation that is not
\* of the background class, an image whose label file gives no kept
\* object or only background objects is left out, and the image ids of the
\* records are pairwise distinct.
C25_RecordHasObject ==
    call.fn = "get_mapillary_dict" =>
        /\ out.st = "ok" =>
               \E i \in 1..Len(out.val.annotations) :
                   out.val.annotations[i].category_id # call.bg_class
        /\ \A i, j \in 1..Len(mem.image_ids) :
               i # j => mem.image_ids[i] # mem.image_ids[j]
        /\ (out.st = "ok") <=>
               (mem.image_ids # <<>>
                /\ mem.image_ids[Len(mem.image_ids)] = mem.idx - 1)

\* Two records are in the list, the second of an image with a background
\* object next to a sign.
C25_Witness ==
    /\ RecordAppended
    /\ Len(mem.image_ids) = 2
    /\ \E i \in 1..Len(out.val.annotations) :
           out.val.annotations[i].category_id = call.bg_class

\* The annotation of the k-th object of the label file is in the record.
Annotated(k) ==
    \E i \in 1..Len(out.val.annotations) :
        out.val.annotations[i].object_id = k

AnnotationOf(k) ==
    out.val.annotations[CHOOSE i \in 1..Len(out.val.annotations) :
                            out.val.annotations[i].object_id = k]

\* The object has a row in the table and is not of the background class.
HasReapRow(k) ==
    /\ call.anno_df
    /\ mem.labels[k].row
    /\ mem.labels[k].class_id # call.bg_class

\* C26: every annotation carries 12 keypoint numbers; with has_reap the
\* four visibilities are 2, an object of 3 target points has their centroid
\* as 4th keypoint, an object of more than 4 target points is cut to its
\* first 4; without has_reap the 12 numbers are zeros and there are no
\* relighting coefficients.
C26_Keypoints ==
    (call.fn = "get_mapillary_dict" /\ mem.idx > 0) =>
        /\ out.st = "ok" =>
               \A k \in 1..Len(mem.labels) : Annotated(k) =>
                   LET a == AnnotationOf(k)
                       kp == a.keypoints
                   IN  /\ Len(kp) = 12
                       /\ a.has_reap = HasReapRow(k)
                       /\ a.has_reap => \A v \in {3, 6, 9, 12} : kp[v] = 2
                       /\ (a.has_reap /\ mem.labels[k].tgt = 3) =>
                              /\ 3 * kp[10] = kp[1] + kp[4] + kp[7]
                              /\ 3 * kp[11] = kp[2] + kp[5] + kp[8]
                       /\ ~a.has_reap =>
                              /\ \A v \in 1..12 : kp[v] = 0
                              /\ a.coeffs = {}
        /\ (/\ \A k \in 1..Len(mem.labels) :
                   /\ mem.labels[k].class_id <= call.bg_class
                   /\ mem.labels[k].tgt # 2
            /\ \E k \in 1..Len(mem.labels) :
                   HasReapRow(k) /\ mem.labels[k].tgt > 4)
           => out.st # "error"

\* C27: with an annotation table, an object without a row for its id is
\* kept with the background class, or dropped when ignore_bg_class is set;
\* the category of every annotation is within 0..bg_class.
C27_UnannotatedIsBackground ==
    RecordAppended =>
        /\ \A i \in 1..Len(out.val.annotations) :
               out.val.annotations[i].category_id \in 0..call.bg_class
        /\ call.anno_df =>
               \A k \in 1..Len(mem.labels) : ~mem.labels[k].row =>
                   IF call.ignore_bg_class THEN ~Annotated(k)
                   ELSE Annotated(k)
                        /\ AnnotationOf(k).category_id = call.bg_class

\* A sign without a row in the table is in a record, as background.
C27_Witness ==
    /\ RecordAppended
    /\ call.anno_df
    /\ ~call.ignore_bg_class
    /\ \E k \in 1..Len(mem.labels) :
           /\ ~mem.labels[k].row
           /\ mem.labels[k].class_id = 0
           /\ Annotated(k)

(***************************************************************************)
(* The training loop of train_detectron_main.py with its cache of          *)
(* adversarial patches.  A patch is named by the iteration that generated  *)
(* it, -1 is None.  mem holds the next iteration, adv_patch_cache, the     *)
(* cache file and the object ids attacked in each iteration so far; out    *)
(* is the last attack: its iteration, its object ids and init_adv_patch.   *)
(***************************************************************************)
ObjIds == {1, 2}

\* Cache files: none, one that does not unpickle, one of an earlier run.
CacheFiles ==
    {[kind |-> "absent", cache |-> [oid \in ObjIds |-> -1]],
     [kind |-> "corrupt", cache |-> [oid \in ObjIds |-> -1]],
     [kind |-> "cache", cache |-> [oid \in ObjIds |-> IF oid = 1 THEN 5 ELSE -1]]}

\* A cache that is never read.
CacheGetNone(adv_patch_cache, oid) == -1

\* adv_patch_cache.get(oid) (line 270)
CacheGet(adv_patch_cache, oid) == adv_patch_cache[oid]

\* Lines 202-218
LoadCache(start_iter, attack_type, file) ==
    IF start_iter > 10 /\ attack_type = "per-sign"
       /\ file.kind = "cache"
    THEN file.cache
    ELSE [oid \in ObjIds |-> -1]

InitTrain ==
    /\ \E start_iter \in {0, 11} : \E attack_type \in {"per-sign", "load"} :
       \E period \in 1..2 : \E file \in CacheFiles :
          /\ start_iter = 0 => file.kind = "absent"
          /\ call = [fn |-> "train", start_iter |-> start_iter,
                     attack_type |-> attack_type, period |-> period,
                     file |-> file]
          /\ mem = [iteration |-> start_iter,
                    adv_patch_cache |-> LoadCache(start_iter, attack_type, file),
                    disk |-> file, attacks |-> <<>>]
    /\ coeffs = Unused
    /\ out = Pending

\* One pass of the loop of line 239 on a batch with the objects obj_ids.
TrainIteration ==
    /\ call.fn = "train"
    /\ mem.iteration < call.start_iter + MaxIters
    /\ \E n \in 0..2 : \E obj_ids \in [1..n -> ObjIds] :
          LET attacked == n > 0 /\ call.attack_type = "per-sign"
              init_adv_patch ==
                  [k \in 1..n |-> CacheGet(mem.adv_patch_cache, obj_ids[k])]
              cache == [oid \in ObjIds |->
                           IF attacked /\ \E k \in 1..n : obj_ids[k] = oid
                           THEN mem.iteration
                           ELSE mem.adv_patch_cache[oid]]
          IN  /\ out' = IF attacked
                        THEN Ok([iteration |-> mem.iteration,
                                 obj_ids |-> obj_ids,
                                 init_adv_patch |-> init_adv_patch])
                        ELSE out
              /\ mem' = [iteration |-> mem.iteration + 1,
                         adv_patch_cache |-> cache,
                         disk |-> IF (mem.iteration + 1) % call.period = 0
                                  THEN [kind |-> "cache", cache |-> cache]
                                  ELSE mem.disk,
                         attacks |-> Append(mem.attacks,
                                            IF attacked THEN obj_ids ELSE <<>>)]
    /\ UNCHANGED <<call, coeffs>>

NextTrain == TrainIteration

SpecTrain == InitTrain /\ [][NextTrain]_vars

\* The iterations, among the first n of this run, that attacked oid.
AttacksOn(oid, n) ==
    {i \in 1..n : \E k \in 1..Len(mem.attacks[i]) : mem.attacks[i][k] = oid}

\* The patch of oid after the first n iterations: of the last attack on
\* it, or what the cache held at the start.
LatestPatch(oid, n) ==
    IF AttacksOn(oid, n) = {}
    THEN (IF call.start_iter > 10 /\ call.attack_type = "per-sign"
             /\ call.file.kind = "cache"
          THEN call.file.cache[oid] ELSE -1)
    ELSE call.start_iter - 1
         + CHOOSE i \in AttacksOn(oid, n) : \A j \in AttacksOn(oid, n) : j <= i

\* C28: in per-sign adversarial training the cache maps every object id
\* attacked so far to the patch of the most recent iteration that attacked
\* it; an attack on an object id starts from that cached patch, or from
\* None if the id was never attacked or no cache was loaded; and the cache
\* is written to disk at every iteration whose number plus one is a
\* multiple of the checkpoint period.
C28_PatchCache ==
    (call.fn = "train" /\ call.attack_type = "per-sign") =>
        /\ \A oid \in ObjIds :
               mem.adv_patch_cache[oid] = LatestPatch(oid, Len(mem.attacks))
        /\ out.st = "ok" =>
               \A k \in 1..Len(out.val.obj_ids) :
                   out.val.init_adv_patch[k] =
                       LatestPatch(out.val.obj_ids[k],
                                   out.val.iteration - call.start_iter)
        /\ (mem.attacks # <<>> /\ mem.iteration % call.period = 0) =>
               mem.disk = [kind |-> "cache", cache |-> mem.adv_patch_cache]

\* An object was attacked a second time, two iterations after the first,
\* from the patch of the first.
C28_Witness ==
    /\ call.fn = "train"
    /\ out.st = "ok"
    /\ out.val.iteration = call.start_iter + 2
    /\ \E k \in 1..Len(out.val.obj_ids) :
           out.val.init_adv_patch[k] = call.start_iter

(***************************************************************************)
(* The aggregation of result files in print_results_to_csv.py.  A score    *)
(* is a level 0..2, a result file holds the scores of one class at IoU 0.5 *)
(* for the two signs of the class.  mem holds the files in the order they  *)
(* are loaded, the number loaded, gt_scores as the list of first results   *)
(* per id, and the variable conf_thres of main.                            *)
(***************************************************************************)
Weights == {"w1.pth", "w2.pth"}

ObjClasses == {0, 1}

\* metadata[weights][dataset]["conf_thres"] (lines 166-172)
ConfThresOf(weights, dataset) ==
    IF weights = "w1.pth" THEN <<1, 2>> ELSE <<2, 1>>

ResultFiles ==
    [weights : Weights, dataset : {"reap"}, attack_type : {"none", "load"},
     obj_class : ObjClasses, scores : {<<1, 2>>, <<2, 0>>}]

\* sid of a result (lines 207-226)
Sid(results) ==
    [attack_type |-> results.attack_type, eval_hash |-> results.weights,
     obj_class |-> results.obj_class]

\* The entry of gt_scores[is_attack] with the id sid, or <<>>.
ScoresOf(gt_scores, sid) ==
    LET found == {i \in 1..Len(gt_scores) : gt_scores[i].sid = sid}
    IN  IF found = {} THEN <<>> ELSE <<gt_scores[CHOOSE i \in found : TRUE]>>

\* Lines 308-328 with the confidence threshold thres: the number of signs
\* detected clean and missed under attack, and the number detected clean.
AttackSuccess(clean_scores, adv_scores, thres) ==
    LET signs == 1..Len(clean_scores)
        clean_detected == {g \in signs : clean_scores[g] >= thres}
        adv_detected == {g \in signs : adv_scores[g] >= thres}
    IN  [num_succeed |-> Cardinality(clean_detected \ adv_detected),
         num_clean |-> Cardinality(clean_detected)]

InitResults ==
    /\ \E n \in 1..MaxResults : \E files \in [1..n -> ResultFiles] :
          /\ call = [fn |-> "main", files |-> files]
          /\ mem = [loaded |-> 0, gt_scores |-> <<>>, conf_thres |-> <<>>]
    /\ coeffs = Unused
    /\ out = Pending

\* One pass of the loop over result files (lines 152-232).
LoadResult ==
    /\ call.fn = "main"
    /\ mem.loaded < Len(call.files)
    /\ LET results == call.files[mem.loaded + 1]
           conf_thres == ConfThresOf(results.weights, results.dataset)
           sid == Sid(results)
       IN  mem' = [loaded |-> mem.loaded + 1,
                   gt_scores |->
                       IF ScoresOf(mem.gt_scores, sid) # <<>>
                       THEN mem.gt_scores
                       ELSE Append(mem.gt_scores,
                                   [sid |-> sid, scores |-> results.scores,
                                    file |-> mem.loaded + 1]),
                   conf_thres |-> conf_thres]
    /\ UNCHANGED <<call, coeffs, out>>

\* The loop over the attacked results (lines 308-328): the ASR entry of
\* every attacked id that has a clean result.
AttackSuccessRates ==
    /\ call.fn = "main"
    /\ mem.loaded = Len(call.files)
    /\ out = Pending
    /\ LET attacked ==
               {i \in 1..Len(mem.gt_scores) :
                   /\ mem.gt_scores[i].sid.attack_type # "none"
                   /\ ScoresOf(mem.gt_scores,
                               [mem.gt_scores[i].sid
                                   EXCEPT !.attack_type = "none"]) # <<>>}
           asr(i) ==
               LET sid == mem.gt_scores[i].sid
                   clean_sid == [sid EXCEPT !.attack_type = "none"]
               IN  [sid |-> sid, file |-> mem.gt_scores[i].file,
                    asr |-> AttackSuccess(
                                ScoresOf(mem.gt_scores, clean_sid)[1].scores,
                                mem.gt_scores[i].scores,
                                mem.conf_thres[sid.obj_class + 1])]
       IN  out' = Ok({asr(i) : i \in attacked})
    /\ UNCHANGED <<call, coeffs, mem>>

NextResults == LoadResult \/ AttackSuccessRates

SpecResults == InitResults /\ [][NextResults]_vars

\* The first file of call.files with the id sid.
FirstFile(sid) ==
    CHOOSE i \in 1..Len(call.files) :
        /\ Sid(call.files[i]) = sid
        /\ \A j \in 1..(i - 1) : Sid(call.files[j]) # sid

\* C29: the attack success rate of every attacked (setting, class) result
\* comes from thresholding its clean and adversarial scores with the
\* confidence threshold of that result's own weights and dataset for that
\* class, whatever the order of the files, and only the first loaded
\* result of an id is counted.
C29_OwnThreshold ==
    (call.fn = "main" /\ out.st = "ok") =>
        \A r \in out.val :
            LET adv == call.files[FirstFile(r.sid)]
                clean == call.files[
                             FirstFile([r.sid EXCEPT !.attack_type = "none"])]
            IN  /\ r.file = FirstFile(r.sid)
                /\ r.asr = AttackSuccess(
                               clean.scores, adv.scores,
                               ConfThresOf(adv.weights,
                                           adv.dataset)[adv.obj_class + 1])

(***************************************************************************)
(* prep_adv_patch of attack_util.py.  None is the empty tuple, or the      *)
(* string "None" for the path; a tensor is the tuple of its shape.  The    *)
(* helpers of img_util and patch_mask_util, the debug image and the pickle *)
(* file are outside the function: each either gives a tensor or raises.    *)
(***************************************************************************)
AttackTypes == {"none", "load", "debug", "random", "per-sign"}

\* The check of line 97 weakened to all three sizes missing.
SizesMissingAll(patch_size_mm, obj_size_px, obj_size_mm) ==
    patch_size_mm = <<>> /\ obj_size_px = <<>> /\ obj_size_mm = <<>>

\* Line 97
SizesMissing(patch_size_mm, obj_size_px, obj_size_mm) ==
    patch_size_mm = <<>> \/ obj_size_px = <<>> \/ obj_size_mm = <<>>

\* img_util.resize_and_pad as called at lines 117-129: a tensor of the
\* channels of obj and the size pad_size.
ResizeAndPad(obj, pad_size) == <<obj[1], pad_size[1], pad_size[2]>>

\* Lines 87-135, after the return of line 85.  file is the pair pickled in
\* adv_patch_path, or <<>> when it cannot be read; helpers says whether the
\* calls outside the function raise.
PrepAdvPatchBody(attack_type, adv_patch_path, patch_size_mm, obj_size_px, obj_size_mm, file, helpers) ==
    LET loaded == attack_type = "load"
        patch_mask == IF loaded THEN file[2]
                      ELSE <<1, obj_size_px[1], obj_size_px[2]>>
        adv_patch == IF loaded THEN file[1]
                     ELSE IF attack_type \in {"debug", "random"}
                          THEN <<3, obj_size_px[1], obj_size_px[2]>>
                          ELSE <<>>
        pad_size == <<obj_size_px[2], obj_size_px[2]>>
    IN  IF loaded /\ adv_patch_path = "None" THEN Raise("ValueError")
        ELSE IF loaded /\ file = <<>> THEN Raise("FileNotFoundError")
        ELSE IF ~loaded /\ SizesMissing(patch_size_mm, obj_size_px, obj_size_mm)
             THEN Raise("ValueError")
        ELSE IF ~loaded /\ (patch_size_mm = <<>> \/ obj_size_mm = <<>>)
             THEN Raise("TypeError")
        ELSE IF obj_size_px = <<>> THEN Raise("TypeError")
        ELSE IF helpers = "raise" THEN Raise("RuntimeError")
        ELSE Ok(<<IF adv_patch = <<>> THEN <<>>
                  ELSE ResizeAndPad(adv_patch, pad_size),
                  ResizeAndPad(patch_mask, pad_size)>>)

\* Lines 59-136
PrepAdvPatch(attack_type, adv_patch_path, patch_size_mm, obj_size_px, obj_size_mm, file, helpers) ==
    IF attack_type = "none" THEN Ok(<<<<>>, <<>>>>)
    ELSE PrepAdvPatchBody(attack_type, adv_patch_path, patch_size_mm,
                          obj_size_px, obj_size_mm, file, helpers)

InitPrep ==
    /\ \E attack_type \in AttackTypes :
       \E adv_patch_path \in {"None", "adv_patch.pkl"} :
       \E patch_size_mm \in {<<>>, <<1, 2, 2>>} :
       \E obj_size_px \in {<<>>, <<2, 3>>, <<3, 2>>} :
       \E obj_size_mm \in {<<>>, <<6, 9>>} :
       \E file \in {<<>>, <<<<3, 2, 2>>, <<1, 2, 2>>>>} :
       \E helpers \in {"ok", "raise"} :
          /\ adv_patch_path = "None" => file = <<>>
          /\ call = [fn |-> "prep_adv_patch", attack_type |-> attack_type,
                     adv_patch_path |-> adv_patch_path,
                     patch_size_mm |-> patch_size_mm,
                     obj_size_px |-> obj_size_px, obj_size_mm |-> obj_size_mm,
                     file |-> file, helpers |-> helpers]
    /\ coeffs = Unused
    /\ out = Pending
    /\ mem = <<>>

PrepAdvPatchCall ==
    /\ call.fn = "prep_adv_patch"
    /\ out = Pending
    /\ out' = PrepAdvPatch(call.attack_type, call.adv_patch_path,
                           call.patch_size_mm, call.obj_size_px,
                           call.obj_size_mm, call.file, call.helpers)
    /\ UNCHANGED <<call, coeffs, mem>>

NextPrep == PrepAdvPatchCall

SpecPrep == InitPrep /\ [][NextPrep]_vars

\* C30: prep_adv_patch returns (None, None) for attack_type "none"
\* whatever the other arguments; it raises ValueError for "load" without a
\* patch path, and for every other attack type when patch_size_mm,
\* obj_size_px or obj_size_mm is missing; whenever it returns for another
\* attack type than "none", the patch mask it returns is not None.
C30_PrepAdvPatch ==
    (call.fn = "prep_adv_patch" /\ out # Pending) =>
        /\ call.attack_type = "none" => out = Ok(<<<<>>, <<>>>>)
        /\ (call.attack_type = "load" /\ call.adv_patch_path = "None") =>
               out = Raise("ValueError")
        /\ (/\ call.attack_type \notin {"none", "load"}
            /\ \/ call.patch_size_mm = <<>>
               \/ call.obj_size_px = <<>>
               \/ call.obj_size_mm = <<>>) =>
               out = Raise("ValueError")
        /\ (call.attack_type # "none" /\ out.st = "ok") => out.val[2] # <<>>

\* A random patch and its mask were returned, with all sizes given.
C30_Witness ==
    /\ call.fn = "prep_adv_patch"
    /\ call.attack_type = "random"
    /\ out.st = "ok"
    /\ out.val[1] = <<3, call.obj_size_px[2], call.obj_size_px[2]>>
    /\ out.val[2] = <<1, call.obj_size_px[2], call.obj_size_px[2]>>

====
